---- MODULE Spec2Model ----
(***************************************************************************)
(* Model of the deterministic core of MTS Deploy AI:                       *)
(*   - TelecomGenerator (tools/telecom_generator.py) and the address       *)
(*     allocator NetworkConfig (config.py),                                *)
(*   - SecurityAnalyzer._calculate_security_score                          *)
(*     (tools/security_analyzer.py),                                       *)
(*   - CostOptimizer._calculate_current_cost / _apply_optimizations        *)
(*     (tools/cost_optimizer.py).                                          *)
(*                                                                         *)
(* Text that the code takes apart (quantities, subnets, file names) is a   *)
(* sequence of one-character strings; text that is only compared (kinds,   *)
(* names, keys) is a TLA+ string.                                          *)
(***************************************************************************)
EXTENDS Integers, Sequences, FiniteSets, TLC

VARIABLES
    \* TelecomGenerator
    component_type,       \* argument of generate_full_stack
    stack,                \* its outcome
    subnet,               \* argument of generate_networkattachmentdefinition_yaml
    nad,                  \* its outcome
    \* SecurityAnalyzer
    basic_checks,         \* the record _run_basic_checks returns
    llm_analysis,         \* the issue lists the LLM returns
    security_score,       \* outcome of _calculate_security_score
    compliance,           \* outcome of _check_compliance
    \* CostOptimizer.analyze_costs
    manifests,            \* the caller's document map: file name -> text
    optimization,         \* the change list under "changes"
    current_cost,         \* outcome of the first _calculate_current_cost
    optimized_manifests,  \* outcome of _apply_optimizations
    optimized_cost,       \* outcome of the second _calculate_current_cost
    report,               \* the dict analyze_costs returns
    pc,                   \* position of analyze_costs
    \* helpers called on their own
    secret_call,          \* arguments of _generate_secret_yaml
    secret,               \* its outcome
    quantity,             \* argument of _parse_cpu and _parse_memory
    parsed,               \* their outcome
    call,                 \* a function called on its own, with its argument
    returned              \* what it returned or raised

synthVars == <<component_type, stack, subnet, nad>>
scoreVars == <<basic_checks, llm_analysis, security_score, compliance>>
costVars == <<manifests, optimization, current_cost, optimized_manifests, optimized_cost,
             report, pc>>
helperVars == <<secret_call, secret, quantity, parsed, call, returned>>
vars == <<synthVars, scoreVars, costVars, helperVars>>

(***************************************************************************)
(* Text helpers: Python str methods on character sequences.                *)
(***************************************************************************)
Digits == <<"0", "1", "2", "3", "4", "5", "6", "7", "8", "9">>

IsDigit(c) == \E i \in 1..10 : Digits[i] = c

DigitVal(c) == (CHOOSE i \in 1..10 : Digits[i] = c) - 1

\* str.endswith(suffix)
EndsWith(s, suffix) ==
    /\ Len(s) >= Len(suffix)
    /\ SubSeq(s, Len(s) - Len(suffix) + 1, Len(s)) = suffix

\* ch in s
Contains(s, ch) == \E i \in 1..Len(s) : s[i] = ch

\* number of occurrences of ch in s
Count(s, ch) == Cardinality({i \in 1..Len(s) : s[i] = ch})

\* str.split(ch): the pieces between the occurrences of ch
RECURSIVE Split(_, _)
Split(s, ch) ==
    IF ~Contains(s, ch) THEN <<s>>
    ELSE LET i == CHOOSE k \in 1..Len(s) :
                      s[k] = ch /\ \A j \in 1..(k - 1) : s[j] # ch
         IN  <<SubSeq(s, 1, i - 1)>> \o Split(SubSeq(s, i + 1, Len(s)), ch)

\* str.rsplit(ch, 1)[0]: everything before the last occurrence of ch
RSplitHead(s, ch) ==
    IF ~Contains(s, ch) THEN s
    ELSE LET i == CHOOSE k \in 1..Len(s) :
                      s[k] = ch /\ \A j \in (k + 1)..Len(s) : s[j] # ch
         IN  SubSeq(s, 1, i - 1)

\* str(n) for a natural number
RECURSIVE NatToText(_)
NatToText(n) ==
    IF n < 10 THEN <<Digits[n + 1]>>
    ELSE NatToText(n \div 10) \o <<Digits[(n % 10) + 1]>>

\* the value of a non-empty string of decimal digits
RECURSIVE DigitsToNat(_)
DigitsToNat(s) ==
    IF Len(s) = 0 THEN 0
    ELSE 10 * DigitsToNat(SubSeq(s, 1, Len(s) - 1)) + DigitVal(s[Len(s)])

AllDigits(s) == Len(s) > 0 /\ \A i \in 1..Len(s) : IsDigit(s[i])

\* sub in s, for strings
Substr(s, sub) ==
    \E i \in 1..(Len(s) - Len(sub) + 1) : SubSeq(s, i, i + Len(sub) - 1) = sub

LowerCase == <<"a", "b", "c", "d", "e", "f", "g", "h", "i", "j", "k", "l", "m", "n", "o", "p", "q", "r", "s", "t", "u", "v", "w", "x", "y", "z">>
UpperCase == <<"A", "B", "C", "D", "E", "F", "G", "H", "I", "J", "K", "L", "M", "N", "O", "P", "Q", "R", "S", "T", "U", "V", "W", "X", "Y", "Z">>

\* str.upper()
Upper(s) ==
    [i \in 1..Len(s) |->
        IF \E k \in 1..26 : LowerCase[k] = s[i]
        THEN UpperCase[CHOOSE k \in 1..26 : LowerCase[k] = s[i]]
        ELSE s[i]]

Max(a, b) == IF a >= b THEN a ELSE b

Min(a, b) == IF a <= b THEN a ELSE b

\* all sequences over S of length lo..hi
SeqsOf(S, lo, hi) == UNION {[1..n -> S] : n \in lo..hi}

(***************************************************************************)
(* config.py: NetworkConfig                                                *)
(***************************************************************************)
BASE_NETWORK == <<"1", "0", ".", "1", "0", "0">>
NETWORK_CIDR == <<"/", "2", "4">>
SUBNET_START_IP == <<"1", "0">>

\* a subnet whose third octet ignores the index
get_subnet_of_base(index) == BASE_NETWORK \o <<".", "0", ".", "0">> \o NETWORK_CIDR

get_subnet(index) == BASE_NETWORK \o <<".">> \o NatToText(index) \o <<".", "0">> \o NETWORK_CIDR

\* the address with the third octet cut to a byte
get_ip_in_byte(index) ==
    BASE_NETWORK \o <<".">> \o NatToText(index % 256) \o <<".">> \o SUBNET_START_IP

get_ip(index) == BASE_NETWORK \o <<".">> \o NatToText(index) \o <<".">> \o SUBNET_START_IP

(***************************************************************************)
(* config.py: SecretsConfig.  A text is the sequence of its pieces.        *)
(***************************************************************************)
PLACEHOLDER_PREFIX == <<"__PLACEHOLDER_">>
PLACEHOLDER_SUFFIX == <<"__">>

\* the name handed over as the secret's value
get_placeholder_unwrapped(name) == name

\* SecretsConfig.get_placeholder
get_placeholder(name) == PLACEHOLDER_PREFIX \o Upper(name) \o PLACEHOLDER_SUFFIX

\* the replacement field of the two templates
PasswordField == "{password}"

DEMO_DATABASE_URL_TEMPLATE ==
    <<"postgresql://billing_user:", PasswordField, "@postgres:5432/billing_db">>

DEMO_RABBITMQ_URL_TEMPLATE ==
    <<"amqp://billing_user:", PasswordField, "@rabbitmq:5672/">>

\* template.format(password=...): the text with each field replaced
RECURSIVE Format(_, _)
Format(template, password) ==
    IF template = <<>> THEN <<>>
    ELSE (IF Head(template) = PasswordField THEN password ELSE <<Head(template)>>)
         \o Format(Tail(template), password)

\* the argument 'PASSWORD' of get_placeholder in _generate_secret_yaml
PasswordName == <<"P", "A", "S", "S", "W", "O", "R", "D">>

\* the offset generate_full_stack and generate_deployment_yaml add to the
\* interface ordinal
InterfaceIndexBase == 100

(***************************************************************************)
(* telecom_generator.py: the catalog.  A descriptor is a function whose    *)
(* domain is the set of keys the Python dict holds.                        *)
(***************************************************************************)
Resources(cmin, cmax, mmin, mmax) ==
    [cpu_min |-> cmin, cpu_max |-> cmax, memory_min |-> mmin, memory_max |-> mmax]

TELECOM_COMPONENTS ==
    [t \in {"5g_upf", "5g_amf", "5g_smf", "billing", "rabbitmq", "redis"} |->
        CASE t = "5g_upf" ->
                [resources |-> Resources("4", "8", "8Gi", "16Gi"), replicas |-> 3,
                 networks |-> <<"n3", "n4", "n6">>,
                 capabilities |-> <<"NET_ADMIN", "SYS_ADMIN">>,
                 storage |-> "100Gi", storage_class |-> "fast-ssd",
                 critical |-> TRUE, priority |-> "system-cluster-critical"]
          [] t = "5g_amf" ->
                [resources |-> Resources("2", "4", "4Gi", "8Gi"), replicas |-> 3,
                 networks |-> <<"n1", "n2">>, capabilities |-> <<"NET_ADMIN">>,
                 critical |-> TRUE, priority |-> "system-cluster-critical"]
          [] t = "5g_smf" ->
                [resources |-> Resources("2", "4", "4Gi", "8Gi"), replicas |-> 3,
                 networks |-> <<"n4", "n7">>, capabilities |-> <<"NET_ADMIN">>,
                 critical |-> TRUE, priority |-> "system-cluster-critical"]
          [] t = "billing" ->
                [resources |-> Resources("1", "4", "2Gi", "8Gi"), replicas |-> 3,
                 needs_database |-> TRUE, needs_cache |-> TRUE, needs_queue |-> TRUE,
                 critical |-> TRUE, priority |-> "high-priority"]
          [] t = "rabbitmq" ->
                [type |-> "StatefulSet",
                 resources |-> Resources("1", "2", "2Gi", "4Gi"), replicas |-> 3,
                 storage |-> "100Gi", storage_class |-> "fast-ssd"]
          [] t = "redis" ->
                [type |-> "StatefulSet",
                 resources |-> Resources("500m", "2", "1Gi", "4Gi"), replicas |-> 3,
                 storage |-> "20Gi", storage_class |-> "fast-ssd"]]

\* the empty Python dict
EmptyDict == [k \in {} |-> 0]

\* config.get(key) used as a condition: the key is present and its value is
\* truthy (a flag that is True, a non-empty list, a non-empty string)
Truthy(config, key) ==
    /\ key \in DOMAIN config
    /\ CASE key \in {"critical", "needs_database", "needs_cache", "needs_queue"} -> config[key]
         [] key \in {"networks", "capabilities"} -> Len(config[key]) > 0
         [] OTHER -> config[key] # ""

\* TelecomGenerator.get_component_config
get_component_config(ctype) ==
    IF ctype \in DOMAIN TELECOM_COMPONENTS THEN TELECOM_COMPONENTS[ctype] ELSE EmptyDict

(***************************************************************************)
(* telecom_generator.py: the generators.  Every outcome is a record whose  *)
(* field raised tells whether the call ended in an exception; a rendered   *)
(* document is kept as the fields the template fills in.                   *)
(***************************************************************************)
Raised == [raised |-> TRUE]

\* the interface names of the catalog in upper case (the Jinja2 filter upper)
UpperName(net) ==
    CASE net = "n1" -> "N1" [] net = "n2" -> "N2" [] net = "n3" -> "N3"
      [] net = "n4" -> "N4" [] net = "n6" -> "N6" [] net = "n7" -> "N7"

\* the addresses of the interfaces, numbered from 0 instead of from 100
network_ips_from_zero(config) ==
    IF Truthy(config, "networks")
    THEN [i \in 1..Len(config["networks"]) |-> get_ip(i - 1)]
    ELSE <<>>

\* generate_deployment_yaml, the list network_ips: one address per interface
network_ips(config) ==
    IF Truthy(config, "networks")
    THEN [i \in 1..Len(config["networks"]) |-> get_ip(InterfaceIndexBase + (i - 1))]
    ELSE <<>>

\* the env block of the Deployment template: absent unless the descriptor
\* has interfaces or needs a database, a cache or a queue; one <NET>_IP
\* variable per interface comes first.
DeploymentEnv(ctype, config) ==
    IF ~(\/ Truthy(config, "networks") \/ Truthy(config, "needs_database")
         \/ Truthy(config, "needs_cache") \/ Truthy(config, "needs_queue"))
    THEN <<>>
    ELSE (IF Truthy(config, "networks")
          THEN [i \in 1..Len(config["networks"]) |->
                   [name |-> <<UpperName(config["networks"][i]), "_IP">>,
                    value |-> network_ips(config)[i]]]
          ELSE <<>>)
         \o <<[name |-> <<"COMPONENT_TYPE">>, value |-> <<ctype>>],
              [name |-> <<"LOG_LEVEL">>, value |-> <<"INFO">>]>>
         \o (IF Truthy(config, "needs_database")
             THEN <<[name |-> <<"DATABASE_URL">>, value |-> <<"secretKeyRef">>]>>
             ELSE <<>>)
         \o (IF Truthy(config, "needs_cache")
             THEN <<[name |-> <<"REDIS_URL">>,
                     value |-> <<"redis://redis-service:6379">>]>>
             ELSE <<>>)
         \o (IF Truthy(config, "needs_queue")
             THEN <<[name |-> <<"RABBITMQ_URL">>, value |-> <<"secretKeyRef">>]>>
             ELSE <<>>)

\* TelecomGenerator.generate_deployment_yaml.  Jinja2 renders an undefined
\* name as empty text and treats it as false in a condition, but raises
\* UndefinedError for an attribute of an undefined name: resources.cpu_min
\* with no resources in the descriptor.
generate_deployment_yaml(ctype, service_name, namespace, custom_params) ==
    LET base == get_component_config(ctype)
        config == [k \in DOMAIN base \cup DOMAIN custom_params |->
                      IF k \in DOMAIN custom_params THEN custom_params[k] ELSE base[k]]
    IN  IF "resources" \notin DOMAIN config THEN Raised
        ELSE [raised |-> FALSE,
              kind |-> "Deployment",
              name |-> service_name,
              namespace |-> namespace,
              component |-> ctype,
              replicas |-> IF "replicas" \in DOMAIN config
                           THEN NatToText(config["replicas"]) ELSE <<>>,
              requests |-> [cpu |-> config["resources"]["cpu_min"],
                            memory |-> config["resources"]["memory_min"]],
              limits |-> [cpu |-> config["resources"]["cpu_max"],
                          memory |-> config["resources"]["memory_max"]],
              attachments |-> IF Truthy(config, "networks")
                              THEN [i \in 1..Len(config["networks"]) |->
                                       [name |-> <<config["networks"][i], "-network">>,
                                        interface |-> config["networks"][i],
                                        ips |-> <<network_ips(config)[i] \o NETWORK_CIDR>>]]
                              ELSE <<>>,
              env |-> DeploymentEnv(ctype, config),
              anti_affinity |-> Truthy(config, "critical"),
              volume |-> Truthy(config, "storage")]

\* TelecomGenerator.generate_service_yaml
generate_service_yaml(service_name, namespace) ==
    [raised |-> FALSE, kind |-> "Service",
     name |-> <<service_name, "-service">>, namespace |-> namespace]

\* the autoscaler with the default maximum of the signature
generate_hpa_yaml_default_max(service_name, namespace, min_replicas, max_replicas) ==
    [raised |-> FALSE, kind |-> "HorizontalPodAutoscaler",
     name |-> <<service_name, "-hpa">>, namespace |-> namespace,
     minReplicas |-> min_replicas, maxReplicas |-> 10]

\* TelecomGenerator.generate_hpa_yaml
generate_hpa_yaml(service_name, namespace, min_replicas, max_replicas) ==
    [raised |-> FALSE, kind |-> "HorizontalPodAutoscaler",
     name |-> <<service_name, "-hpa">>, namespace |-> namespace,
     minReplicas |-> min_replicas, maxReplicas |-> max_replicas]

\* TelecomGenerator.generate_pvc_yaml
generate_pvc_yaml(service_name, namespace, storage, storage_class) ==
    [raised |-> FALSE, kind |-> "PersistentVolumeClaim",
     name |-> <<service_name, "-pvc">>, namespace |-> namespace,
     storage |-> storage, storageClassName |-> storage_class]

\* TelecomGenerator.generate_networkattachmentdefinition_yaml: a ValueError
\* unless the text holds exactly one "/" and a "." before it.
generate_networkattachmentdefinition_yaml(network_name, namespace, subnet_text) ==
    LET subnet_parts == Split(subnet_text, "/")
        ip_part == subnet_parts[1]
        base_ip == RSplitHead(ip_part, ".")
    IN  IF Len(subnet_parts) # 2 THEN Raised
        ELSE IF ~Contains(ip_part, ".") THEN Raised
        ELSE [raised |-> FALSE, kind |-> "NetworkAttachmentDefinition",
              name |-> <<network_name, "-network">>, namespace |-> namespace,
              subnet |-> subnet_text,
              rangeStart |-> base_ip \o <<".", "1", "0">>,
              rangeEnd |-> base_ip \o <<".", "1", "0", "0">>,
              gateway |-> base_ip \o <<".", "1">>]

\* TelecomGenerator._generate_secret_yaml
generate_secret_yaml(service_name, namespace, config) ==
    [raised |-> FALSE, kind |-> "Secret",
     name |-> <<service_name, "-secrets">>, namespace |-> namespace,
     type |-> "Opaque",
     stringData |->
        [k \in (IF Truthy(config, "needs_database") THEN {"database-url"} ELSE {})
               \cup (IF Truthy(config, "needs_queue") THEN {"rabbitmq-url"} ELSE {}) |->
            IF k = "database-url"
            THEN Format(DEMO_DATABASE_URL_TEMPLATE, get_placeholder(PasswordName))
            ELSE Format(DEMO_RABBITMQ_URL_TEMPLATE, get_placeholder(PasswordName))]]

\* the line "---" that "\n---\n".join puts between two documents
DocumentSeparator == [separator |-> "---"]

\* "\n---\n".join(parts): the parts in order with a separator line between
\* each two neighbours
JoinManifests(parts) ==
    [k \in 1..(2 * Len(parts) - 1) |->
        IF k % 2 = 1 THEN parts[(k + 1) \div 2] ELSE DocumentSeparator]

\* the keys with the autoscaler emitted for every component
ArtifactNamesAlwaysScaled(config) ==
    {"deployment.yaml", "service.yaml", "hpa.yaml"}
    \cup (IF Truthy(config, "storage") THEN {"pvc.yaml"} ELSE {})
    \cup (IF Truthy(config, "networks") THEN {"network-attachment.yaml"} ELSE {})
    \cup (IF Truthy(config, "needs_database") \/ Truthy(config, "needs_queue")
          THEN {"secret.yaml"} ELSE {})

\* the keys generate_full_stack assigns: steps 1 and 2 always, steps 3 to 6
\* under their conditions on the descriptor
ArtifactNames(config) ==
    {"deployment.yaml", "service.yaml"}
    \cup (IF Truthy(config, "critical") THEN {"hpa.yaml"} ELSE {})
    \cup (IF Truthy(config, "storage") THEN {"pvc.yaml"} ELSE {})
    \cup (IF Truthy(config, "networks") THEN {"network-attachment.yaml"} ELSE {})
    \cup (IF Truthy(config, "needs_database") \/ Truthy(config, "needs_queue")
          THEN {"secret.yaml"} ELSE {})

\* TelecomGenerator.generate_full_stack: the map artifact name -> document,
\* or the exception of the first generator that raises.
generate_full_stack(ctype, service_name, namespace) ==
    LET config == get_component_config(ctype)
        deployment == generate_deployment_yaml(ctype, service_name, namespace, EmptyDict)
        nets == IF Truthy(config, "networks") THEN config["networks"] ELSE <<>>
        nad_manifests == [i \in 1..Len(nets) |->
                             generate_networkattachmentdefinition_yaml(
                                 nets[i], namespace,
                                 get_subnet(InterfaceIndexBase + (i - 1)))]
        names == ArtifactNames(config)
        replicas == IF "replicas" \in DOMAIN config THEN config["replicas"] ELSE 3
    IN  IF deployment.raised THEN Raised
        ELSE IF \E i \in 1..Len(nets) : nad_manifests[i].raised THEN Raised
        ELSE [raised |-> FALSE,
              manifests |->
                [n \in names |->
                    CASE n = "deployment.yaml" -> <<deployment>>
                      [] n = "service.yaml" ->
                            <<generate_service_yaml(service_name, namespace)>>
                      [] n = "hpa.yaml" ->
                            <<generate_hpa_yaml(service_name, namespace,
                                                replicas, replicas * 3)>>
                      [] n = "pvc.yaml" ->
                            <<generate_pvc_yaml(
                                service_name, namespace, config["storage"],
                                IF "storage_class" \in DOMAIN config
                                THEN config["storage_class"] ELSE "standard")>>
                      [] n = "network-attachment.yaml" -> JoinManifests(nad_manifests)
                      [] n = "secret.yaml" ->
                            <<generate_secret_yaml(service_name, namespace, config)>>]]

(***************************************************************************)
(* utils/validation.py                                                     *)
(***************************************************************************)
\* the longest name validate_k8s_resource_name lets through
MaxNameLength == 253

\* the class [a-z0-9]
IsLowerAlnum(c) == IsDigit(c) \/ \E k \in 1..26 : LowerCase[k] = c

\* the whole of w is matched by [a-z0-9]([-a-z0-9]*[a-z0-9])?
IsLabel(w) ==
    /\ Len(w) >= 1
    /\ IsLowerAlnum(w[1])
    /\ IsLowerAlnum(w[Len(w)])
    /\ \A i \in 1..Len(w) : IsLowerAlnum(w[i]) \/ w[i] = "-"

\* the positions at which $ matches: the end of the text, and the place
\* before a line feed that ends the text
DollarPositions(text) ==
    {Len(text)} \cup (IF Len(text) >= 1 /\ text[Len(text)] = "\n" THEN {Len(text) - 1} ELSE {})

\* re.match(r'^[a-z0-9]([-a-z0-9]*[a-z0-9])?$', name)
MatchesLabel(name) == \E end \in DollarPositions(name) : IsLabel(SubSeq(name, 1, end))

\* validate_k8s_resource_name: the name, or ValueError
validate_k8s_resource_name(name) ==
    IF name = <<>> THEN Raised
    ELSE IF Len(name) > MaxNameLength THEN Raised
    ELSE IF ~MatchesLabel(name) THEN Raised
    ELSE [raised |-> FALSE, value |-> name]

\* the default of the parameter placeholder
RedactedPlaceholder == <<"*", "*", "*", "R", "E", "D", "A", "C", "T", "E", "D", "*", "*", "*">>

\* value[:4] and value[-4:]
FirstFour(value) == SubSeq(value, 1, Min(4, Len(value)))

LastFour(value) == SubSeq(value, Max(1, Len(value) - 3), Len(value))

\* sanitize_secret_value with the default placeholder
sanitize_secret_value(value) ==
    IF value = <<>> \/ Len(value) < 4 THEN RedactedPlaceholder
    ELSE FirstFour(value) \o <<".", ".", ".">> \o LastFour(value)

(***************************************************************************)
(* security_analyzer.py: the score                                         *)
(***************************************************************************)
\* the penalties of _calculate_security_score, in the order it applies them
ScorePenalty(checks, analysis) ==
      Len(analysis.critical_issues) * 15
    + Len(analysis.warnings) * 5
    + (IF ~checks.security_context_present THEN 10 ELSE 0)
    + (IF ~checks.run_as_non_root THEN 10 ELSE 0)
    + (IF Len(checks.privileged_containers) > 0 THEN 20 ELSE 0)
    + (IF Len(checks.secrets_in_env) > 0 THEN 15 ELSE 0)
    + (IF ~checks.resource_limits_set THEN 10 ELSE 0)
    + (IF ~checks.network_policies_present THEN 10 ELSE 0)

\* the score returned as computed, with no clamp
UnclampedScore(score) == score

\* the final clamp: max(0, min(100, score))
ClampScore(score) == Max(0, Min(100, score))

\* SecurityAnalyzer._calculate_security_score
calculate_security_score(checks, analysis) ==
    ClampScore(100 - ScorePenalty(checks, analysis))

\* the grade with the band of B starting at 70
get_security_grade_wide_b(score) ==
    IF score >= 90 THEN <<"A", " (Otlichno)">>
    ELSE IF score >= 70 THEN <<"B", " (Khorosho)">>
    ELSE IF score >= 60 THEN <<"C", " (Udovletvoritelno)">>
    ELSE IF score >= 40 THEN <<"D", " (Trebuetsya uluchshenie)">>
    ELSE <<"F", " (Kritichno)">>

\* SecurityAnalyzer._get_security_grade: the letter and the label in
\* brackets, the Russian label written in Latin letters
get_security_grade(score) ==
    IF score >= 90 THEN <<"A", " (Otlichno)">>
    ELSE IF score >= 75 THEN <<"B", " (Khorosho)">>
    ELSE IF score >= 60 THEN <<"C", " (Udovletvoritelno)">>
    ELSE IF score >= 40 THEN <<"D", " (Trebuetsya uluchshenie)">>
    ELSE <<"F", " (Kritichno)">>

(***************************************************************************)
(* Parsed YAML: a value is a record tagged with its Python type.           *)
(***************************************************************************)
YNull == [t |-> "null"]
YStr(s) == [t |-> "str", s |-> s]
YInt(n) == [t |-> "int", n |-> n]
YBool(b) == [t |-> "bool", b |-> b]
YList(l) == [t |-> "list", l |-> l]
YMap(m) == [t |-> "map", m |-> m]
EmptyMap == YMap(EmptyDict)

\* the outcome of an expression that raised
Err == [t |-> "err"]

\* not v
Falsy(v) ==
    \/ v.t = "null"
    \/ v.t = "map" /\ DOMAIN v.m = {}
    \/ v.t = "list" /\ Len(v.l) = 0
    \/ v.t = "str" /\ Len(v.s) = 0
    \/ v.t = "int" /\ v.n = 0
    \/ v.t = "bool" /\ ~v.b

\* v.get(key, default): AttributeError unless v is a mapping
Get(v, key, default) ==
    IF v.t # "map" THEN Err
    ELSE IF key \in DOMAIN v.m THEN v.m[key] ELSE default

\* v[key]: KeyError or TypeError unless v is a mapping holding key
Item(v, key) ==
    IF v.t = "map" /\ key \in DOMAIN v.m THEN v.m[key] ELSE Err

\* v[key] = x on a mapping v
SetItem(v, key, x) ==
    YMap([k \in DOMAIN v.m \cup {key} |-> IF k = key THEN x ELSE v.m[k]])

\* the elements a for loop over v visits, or Err(TypeError) when v is not
\* iterable; the keys of a non-empty mapping and the characters of a
\* non-empty string are visited as strings.
Iterate(v) ==
    CASE v.t = "list" -> v
      [] v.t = "map" /\ DOMAIN v.m = {} -> YList(<<>>)
      [] v.t = "map" -> YList(<<YStr("")>>)
      [] v.t = "str" -> YList([i \in 1..Len(v.s) |-> YStr("")])
      [] OTHER -> Err

(***************************************************************************)
(* YAML text.  A text is what it parses to plus its layout: "written" is   *)
(* text as an author or a template laid it out (comments, quoting, key     *)
(* order), "dumped" is the block layout yaml.dump_all emits.  Two texts    *)
(* are the same bytes iff they are the same record.                        *)
(***************************************************************************)
YamlText(docs, layout) == [ok |-> TRUE, docs |-> docs, layout |-> layout]

\* text no YAML parser accepts
MalformedText == [ok |-> FALSE, docs |-> <<>>, layout |-> "written"]

\* list(yaml.safe_load_all(content)): the documents, or Err(YAMLError)
safe_load_all(content) == IF content.ok THEN YList(content.docs) ELSE Err

\* yaml.dump_all(docs, default_flow_style=False)
dump_all(docs) == YamlText(docs, "dumped")

(***************************************************************************)
(* cost_optimizer.py: quantities.  A float is kept as an exact fraction    *)
(* n/d in lowest terms.                                                    *)
(***************************************************************************)
RECURSIVE Gcd(_, _)
Gcd(a, b) == IF b = 0 THEN a ELSE Gcd(b, a % b)

Rat(n, d) == LET g == Gcd(n, d) IN [t |-> "rat", n |-> n \div g, d |-> d \div g]

RatAdd(a, b) == Rat(a.n * b.d + b.n * a.d, a.d * b.d)

RatMul(a, b) == Rat(a.n * b.n, a.d * b.d)

RECURSIVE Pow10(_)
Pow10(k) == IF k = 0 THEN 1 ELSE 10 * Pow10(k - 1)

\* float(text) for text made of decimal digits and at most one point;
\* Err(ValueError) for anything else
PyFloat(text) ==
    LET whole == Split(text, ".")
        digits == IF Len(whole) = 2 THEN whole[1] \o whole[2] ELSE text
    IN  IF Len(whole) > 2 \/ ~AllDigits(digits) THEN Err
        ELSE IF Len(whole) = 2 THEN Rat(DigitsToNat(digits), Pow10(Len(whole[2])))
        ELSE Rat(DigitsToNat(digits), 1)

\* int(value): an int as it is, a string of decimal digits as its value;
\* Err(ValueError, TypeError) for anything else
PyInt(v) ==
    CASE v.t = "int" -> v
      [] v.t = "str" -> IF AllDigits(v.s) THEN YInt(DigitsToNat(v.s)) ELSE Err
      [] OTHER -> Err

DropLast(s, k) == SubSeq(s, 1, Len(s) - k)

\* the number before the unit taken as whole cores
parse_cpu_as_cores(v) ==
    IF v.t # "str" THEN Err
    ELSE IF EndsWith(v.s, <<"m">>) THEN PyFloat(DropLast(v.s, 1))
    ELSE PyFloat(v.s)

\* CostOptimizer._parse_cpu: cores.  Err(AttributeError) when the value is
\* no string.
parse_cpu(v) ==
    IF v.t # "str" THEN Err
    ELSE IF EndsWith(v.s, <<"m">>)
         THEN LET f == PyFloat(DropLast(v.s, 1))
              IN  IF f = Err THEN Err ELSE RatMul(f, Rat(1, 1000))
         ELSE PyFloat(v.s)

\* the multipliers table of _parse_memory, in its order
MemorySuffixes == <<<<"K", "i">>, <<"M", "i">>, <<"G", "i">>, <<"T", "i">>>>

\* the table with decimal steps between the units
MemoryMultiplierDecimal(i) ==
    CASE i = 1 -> Rat(1, 1000 * 1000)
      [] i = 2 -> Rat(1, 1000)
      [] i = 3 -> Rat(1, 1)
      [] i = 4 -> Rat(1000, 1)

MemoryMultiplier(i) ==
    CASE i = 1 -> Rat(1, 1024 * 1024)
      [] i = 2 -> Rat(1, 1024)
      [] i = 3 -> Rat(1, 1)
      [] i = 4 -> Rat(1024, 1)

\* CostOptimizer._parse_memory: gigabytes
parse_memory(v) ==
    IF v.t # "str" THEN Err
    ELSE IF \E i \in 1..4 : EndsWith(v.s, MemorySuffixes[i])
         THEN LET i == CHOOSE k \in 1..4 :
                           /\ EndsWith(v.s, MemorySuffixes[k])
                           /\ \A j \in 1..(k - 1) : ~EndsWith(v.s, MemorySuffixes[j])
                  f == PyFloat(DropLast(v.s, 2))
              IN  IF f = Err THEN Err ELSE RatMul(f, MemoryMultiplier(i))
         ELSE PyFloat(v.s)

\* the cost of one replica, whatever the replica count
TimesOneReplica(x, replicas) ==
    IF replicas.t = "int" THEN x ELSE Err

\* x * replicas for a float x: TypeError unless replicas is a number
TimesReplicas(x, replicas) ==
    IF replicas.t = "int" THEN RatMul(x, Rat(replicas.n, 1)) ELSE Err

\* round(x, 2) of a non-negative fraction, in hundredths (ties to even)
Round2(x) ==
    LET scaled == x.n * 100
        q == scaled \div x.d
        r == scaled % x.d
    IN  IF 2 * r > x.d \/ (2 * r = x.d /\ q % 2 = 1) THEN q + 1 ELSE q

(***************************************************************************)
(* cost_optimizer.py: _calculate_current_cost                              *)
(***************************************************************************)
\* self.pricing, per month
CpuCorePrice == 1500
MemoryGbPrice == 600
StorageGbPrice == 50

YamlSuffix == <<".", "y", "a", "m", "l">>

\* a default that charges nothing for an undeclared cpu request
DefaultCpuZero == YStr(<<"0">>)

DefaultCpu == YStr(<<"1", "0", "0", "m">>)
DefaultMemory == YStr(<<"1", "2", "8", "M", "i">>)
DefaultStorage == YStr(<<"1", "G", "i">>)

\* a loop that got as far as total: finished, or left by an exception
Done(total) == [raised |-> FALSE, total |-> total]
Failed(total) == [raised |-> TRUE, total |-> total]

\* one pass of the loop over containers: the cpu cost is added before the
\* memory request is read
ContainerCost(container, replicas, total) ==
    LET resources == Get(Get(container, "resources", EmptyMap), "requests", EmptyMap)
        cpu_cores == parse_cpu(Get(resources, "cpu", DefaultCpu))
        cpu_cost == IF cpu_cores = Err THEN Err
                    ELSE TimesReplicas(RatMul(cpu_cores, Rat(CpuCorePrice, 1)), replicas)
        memory_gb == parse_memory(Get(resources, "memory", DefaultMemory))
        memory_cost == TimesReplicas(RatMul(memory_gb, Rat(MemoryGbPrice, 1)), replicas)
    IN  IF cpu_cost = Err THEN Failed(total)
        ELSE IF memory_gb = Err THEN Failed(RatAdd(total, cpu_cost))
        ELSE Done(RatAdd(RatAdd(total, cpu_cost), memory_cost))

\* the loop over the containers of a Deployment, left at the first
\* exception
RECURSIVE ContainersCost(_, _, _, _)
ContainersCost(containers, i, replicas, acc) ==
    IF i > Len(containers) \/ acc.raised THEN acc
    ELSE ContainersCost(containers, i + 1, replicas,
                        ContainerCost(containers[i], replicas, acc.total))

\* the storage branch of the loop body
StorageCost(doc, total) ==
    LET storage == Get(Get(Get(Get(doc, "spec", EmptyMap), "resources", EmptyMap),
                           "requests", EmptyMap), "storage", DefaultStorage)
        storage_gb == parse_memory(storage)
    IN  IF storage_gb = Err THEN Failed(total)
        ELSE Done(RatAdd(total, RatMul(storage_gb, Rat(StorageGbPrice, 1))))

\* the storage branch follows the loop over the containers in the loop body
StorageBranch(doc, kind, r) ==
    IF r.raised THEN r
    ELSE IF kind = YStr("PersistentVolumeClaim") THEN StorageCost(doc, r.total)
    ELSE r

\* one pass of the loop over the documents of a file.  Every document that
\* is not a Deployment is left by the continue, so the storage branch runs
\* only for a document whose kind is Deployment.
DocCost(doc, total) ==
    IF Falsy(doc) THEN Done(total)
    ELSE LET kind == Get(doc, "kind", YNull)
             spec == Get(doc, "spec", EmptyMap)
             replicas == Get(spec, "replicas", YInt(1))
             containers == Iterate(Get(Get(Get(spec, "template", EmptyMap),
                                           "spec", EmptyMap), "containers", YList(<<>>)))
         IN  IF kind = Err THEN Failed(total)
             ELSE IF kind # YStr("Deployment") THEN Done(total)
             ELSE IF replicas = Err \/ containers = Err THEN Failed(total)
             ELSE StorageBranch(doc, kind,
                                ContainersCost(containers.l, 1, replicas, Done(total)))

\* the loop over the documents of a file, left at the first exception
RECURSIVE DocsCost(_, _, _)
DocsCost(docs, i, acc) ==
    IF i > Len(docs) \/ acc.raised THEN acc
    ELSE DocsCost(docs, i + 1, DocCost(docs[i], acc.total))

\* the try block adding to a total of its own, which is added to the sum
\* only when the file was read to its end
FileCostAllOrNothing(content, total) ==
    LET docs == safe_load_all(content)
        r == IF docs = Err THEN Failed(total) ELSE DocsCost(docs.l, 1, Done(total))
    IN  IF r.raised THEN Failed(total) ELSE r

\* the try block for one file
FileCost(content, total) ==
    LET docs == safe_load_all(content)
    IN  IF docs = Err THEN Failed(total) ELSE DocsCost(docs.l, 1, Done(total))

\* no except clause: the exception leaves the loop over the files
CostExceptMissing(r) == r

\* the except clause: log a warning and go on with the next file
CostExcept(r) == Done(r.total)

\* the loop over manifests.items(); a file whose name does not end in
\* .yaml is passed over
RECURSIVE FilesCost(_, _, _)
FilesCost(m, names, acc) ==
    IF names = {} \/ acc.raised THEN acc
    ELSE LET f == CHOOSE x \in names : TRUE
             r == IF EndsWith(f, YamlSuffix)
                  THEN CostExcept(FileCost(m[f], acc.total))
                  ELSE acc
         IN  FilesCost(m, names \ {f}, r)

\* return round(total_cost, 2), unless an exception left the loop
ReturnRounded(r) ==
    IF r.raised THEN Raised ELSE [raised |-> FALSE, cost |-> Round2(r.total)]

\* CostOptimizer._calculate_current_cost; cost is round(total_cost, 2) in
\* hundredths of a rouble
calculate_current_cost(m) ==
    ReturnRounded(FilesCost(m, DOMAIN m, Done(Rat(0, 1))))

(***************************************************************************)
(* cost_optimizer.py: _apply_optimizations                                 *)
(***************************************************************************)
Unchanged(doc) == [raised |-> FALSE, doc |-> doc, modified |-> FALSE]
Modified(doc) == [raised |-> FALSE, doc |-> doc, modified |-> TRUE]

\* container["resources"] = {"requests": {key: value}}
SetRequestAfresh(container, key, value) ==
    IF container.t # "map" THEN Err
    ELSE SetItem(container, "resources",
                 YMap([requests |-> SetItem(EmptyMap, key, value)]))

\* container.setdefault("resources", {}).setdefault("requests", {})[key] = value
SetRequest(container, key, value) ==
    LET resources == Get(container, "resources", EmptyMap)
        requests == Get(resources, "requests", EmptyMap)
    IN  IF requests = Err \/ requests.t # "map" THEN Err
        ELSE SetItem(container, "resources",
                     SetItem(resources, "requests", SetItem(requests, key, value)))

\* reduce_cpu / reduce_memory on one matching Deployment
SetRequests(doc, key, value) ==
    LET spec == Item(doc, "spec")
        template == Item(spec, "template")
        podspec == Item(template, "spec")
        containers == Item(podspec, "containers")
        visited == Iterate(containers)
        updated == [i \in 1..Len(visited.l) |-> SetRequest(visited.l[i], key, value)]
    IN  IF visited = Err \/ \E i \in 1..Len(visited.l) : updated[i] = Err THEN Raised
        ELSE IF containers.t # "list" THEN Modified(doc)
        ELSE Modified(SetItem(doc, "spec",
                 SetItem(spec, "template",
                     SetItem(template, "spec",
                         SetItem(podspec, "containers", YList(updated))))))

\* doc["spec"]["replicas"] = new_value, without int()
SetReplicasUnconverted(doc, new_value) ==
    LET spec == Item(doc, "spec")
    IN  IF PyInt(new_value) = Err \/ spec = Err \/ spec.t # "map" THEN Raised
        ELSE Modified(SetItem(doc, "spec", SetItem(spec, "replicas", new_value)))

\* doc["spec"]["replicas"] = int(new_value)
SetReplicas(doc, new_value) ==
    LET spec == Item(doc, "spec")
        replicas == PyInt(new_value)
    IN  IF replicas = Err \/ spec = Err \/ spec.t # "map" THEN Raised
        ELSE Modified(SetItem(doc, "spec", SetItem(spec, "replicas", replicas)))

\* the chain with modified = True set after it, for every matching document
ApplyByTypeMarkingAll(doc, change) ==
    LET kind == Get(doc, "kind", YNull)
    IN  CASE change.type = "reduce_replicas" /\ kind = YStr("Deployment") ->
                SetReplicas(doc, change.to)
          [] change.type = "reduce_cpu" /\ kind = YStr("Deployment") ->
                SetRequests(doc, "cpu", change.to)
          [] change.type = "reduce_memory" /\ kind = YStr("Deployment") ->
                SetRequests(doc, "memory", change.to)
          [] OTHER -> Modified(doc)

\* the if / elif chain on the change type: any other type, and any kind
\* other than Deployment, falls through
ApplyByType(doc, change) ==
    LET kind == Get(doc, "kind", YNull)
    IN  CASE change.type = "reduce_replicas" /\ kind = YStr("Deployment") ->
                SetReplicas(doc, change.to)
          [] change.type = "reduce_cpu" /\ kind = YStr("Deployment") ->
                SetRequests(doc, "cpu", change.to)
          [] change.type = "reduce_memory" /\ kind = YStr("Deployment") ->
                SetRequests(doc, "memory", change.to)
          [] OTHER -> Unchanged(doc)

\* the pass without the comparison of the name with the target
ApplyToDocAnyName(doc, change) ==
    IF Falsy(doc) THEN Unchanged(doc)
    ELSE LET name == Get(Get(doc, "metadata", EmptyMap), "name", YNull)
         IN  IF name = Err THEN Raised ELSE ApplyByType(doc, change)

\* one pass of the loop over the documents of a file for one change
ApplyToDoc(doc, change) ==
    IF Falsy(doc) THEN Unchanged(doc)
    ELSE LET name == Get(Get(doc, "metadata", EmptyMap), "name", YNull)
         IN  IF name = Err THEN Raised
             ELSE IF name # YStr(change.target) THEN Unchanged(doc)
             ELSE ApplyByType(doc, change)

\* the entry dumped whether or not a document was modified
StoreFileAlways(content, docs, modified) == dump_all(docs)

\* what the file's entry becomes once its documents were visited: the dump
\* of all of them if one was modified
StoreFile(content, docs, modified) ==
    IF modified THEN dump_all(docs) ELSE content

\* the try block with the dump moved into a finally clause: the documents
\* are stored also when the loop over them raised
ApplyToFileStoringOnFailure(content, change) ==
    LET docs == safe_load_all(content)
        visited == [i \in 1..Len(docs.l) |-> ApplyToDoc(docs.l[i], change)]
    IN  IF docs = Err THEN content
        ELSE IF \E i \in 1..Len(docs.l) : visited[i].raised THEN dump_all(docs.l)
        ELSE StoreFile(content,
                       [i \in 1..Len(docs.l) |-> visited[i].doc],
                       \E i \in 1..Len(docs.l) : visited[i].modified)

\* the try block for one file and one change; an exception leaves the
\* entry as it was
ApplyToFile(content, change) ==
    LET docs == safe_load_all(content)
        visited == [i \in 1..Len(docs.l) |-> ApplyToDoc(docs.l[i], change)]
    IN  IF docs = Err THEN content
        ELSE IF \E i \in 1..Len(docs.l) : visited[i].raised THEN content
        ELSE StoreFile(content,
                       [i \in 1..Len(docs.l) |-> visited[i].doc],
                       \E i \in 1..Len(docs.l) : visited[i].modified)

\* the loop over the files for one change
ApplyChange(m, change) ==
    [f \in DOMAIN m |-> IF EndsWith(f, YamlSuffix) THEN ApplyToFile(m[f], change) ELSE m[f]]

RECURSIVE ApplyChanges(_, _, _)
ApplyChanges(m, changes, i) ==
    IF i > Len(changes) THEN m
    ELSE ApplyChanges(ApplyChange(m, changes[i]), changes, i + 1)

\* the object the parameter manifests of _apply_optimizations refers to
CallerMap == "manifests"

\* an assignment that binds the caller's own object
DictAlias(ref) == ref

\* dict.copy(): a new object holding the same items
DictCopy(ref) == "optimized"

\* CostOptimizer._apply_optimizations: the loop stores into the object
\* optimized is bound to; manifests is the returned object, caller the
\* object the caller handed in, as the call leaves it
apply_optimizations(m, changes) ==
    LET optimized == DictCopy(CallerMap)
        heap == [ref \in {CallerMap, optimized} |->
                    IF ref = optimized THEN ApplyChanges(m, changes, 1) ELSE m]
    IN  [raised |-> FALSE, manifests |-> heap[optimized], caller |-> heap[CallerMap]]

(***************************************************************************)
(* cost_optimizer.py: the report of analyze_costs                          *)
(***************************************************************************)
\* a / b on numbers: ZeroDivisionError for b = 0
TrueDiv(a, b) ==
    IF b = 0 THEN Raised
    ELSE [raised |-> FALSE, value |-> IF b < 0 THEN Rat(0 - a, 0 - b) ELSE Rat(a, b)]

\* round(x, 1) in tenths, ties to the even tenth
Round1(x) ==
    LET scaled == x.n * 10
        q == scaled \div x.d
        r == scaled % x.d
    IN  IF 2 * r > x.d \/ (2 * r = x.d /\ q % 2 = 1) THEN q + 1 ELSE q

\* the percentage computed without looking at current_cost first
savings_percentage_unguarded(current, optimized) ==
    LET ratio == TrueDiv(current - optimized, current)
    IN  IF ratio.raised THEN Raised
        ELSE [raised |-> FALSE, tenths |-> Round1(RatMul(ratio.value, Rat(100, 1)))]

\* "savings_percentage": round((current - optimized) / current * 100, 1)
\* if current > 0 else 0, in tenths of a percent
savings_percentage(current, optimized) ==
    IF current > 0
    THEN LET ratio == TrueDiv(current - optimized, current)
         IN  IF ratio.raised THEN Raised
             ELSE [raised |-> FALSE, tenths |-> Round1(RatMul(ratio.value, Rat(100, 1)))]
    ELSE [raised |-> FALSE, tenths |-> 0]

\* step 5 of analyze_costs and its except branch; amounts in hundredths
make_report(current, optimized) ==
    IF current.raised \/ optimized.raised THEN [status |-> "error"]
    ELSE LET percentage == savings_percentage(current.cost, optimized.cost)
         IN  IF percentage.raised THEN [status |-> "error"]
             ELSE [status |-> "analyzed",
                   current_cost_monthly |-> current.cost,
                   optimized_cost_monthly |-> optimized.cost,
                   savings_monthly |-> current.cost - optimized.cost,
                   savings_yearly |-> (current.cost - optimized.cost) * 12,
                   savings_percentage |-> percentage.tenths]

(***************************************************************************)
(* security_analyzer.py: _run_basic_checks and _check_compliance.  A       *)
(* finding is the tuple of the values its f-string joins.                  *)
(***************************************************************************)
\* the checks record as initialised
InitialChecks ==
    [security_context_present |-> FALSE, run_as_non_root |-> FALSE,
     privileged_containers |-> <<>>, host_network_usage |-> <<>>,
     host_path_volumes |-> <<>>, secrets_in_env |-> <<>>,
     capabilities_added |-> <<>>, resource_limits_set |-> FALSE,
     readiness_probes_set |-> FALSE, liveness_probes_set |-> FALSE,
     network_policies_present |-> FALSE, service_account_set |-> FALSE,
     image_pull_policy |-> <<>>, trusted_registry |-> <<>>]

\* the checks so far: the scan of a file goes on, or an exception left it
Going(checks) == [raised |-> FALSE, checks |-> checks]
Left(checks) == [raised |-> TRUE, checks |-> checks]

Unnamed == YStr(<<"u", "n", "n", "a", "m", "e", "d">>)
SecretWord == <<"S", "E", "C", "R", "E", "T">>
PasswordWord == <<"P", "A", "S", "S", "W", "O", "R", "D">>
MtsRegistry == <<"r", "e", "g", "i", "s", "t", "r", "y", ".", "m", "t", "s", ".", "r", "u">>
DockerLibrary == <<"d", "o", "c", "k", "e", "r", ".", "i", "o", "/", "l", "i", "b", "r", "a", "r", "y">>

\* x in v for a registry name x: substring of a string, element of a list,
\* key of a mapping (no mapping here has such a key); TypeError for
\* anything else
InValue(x, v) ==
    CASE v.t = "str" -> Substr(v.s, x)
      [] v.t = "list" -> \E i \in 1..Len(v.l) : v.l[i] = YStr(x)
      [] OTHER -> FALSE

InValueRaises(v) == v.t \notin {"str", "list", "map"}

\* the body of the loop over env, without the test for a literal value
EnvStepAnyValue(acc, name, container_name, env) ==
    LET env_name == Get(env, "name", YStr(<<>>))
    IN  IF env_name = Err \/ env_name.t # "str" THEN Left(acc.checks)
        ELSE IF \/ Substr(Upper(env_name.s), SecretWord)
                \/ Substr(Upper(env_name.s), PasswordWord)
             THEN Going([acc.checks EXCEPT !.secrets_in_env =
                            Append(@, <<name, container_name, env_name>>)])
             ELSE acc

\* the body of the loop over env
EnvStep(acc, name, container_name, env) ==
    LET env_name == Get(env, "name", YStr(<<>>))
    IN  IF env_name = Err \/ env_name.t # "str" THEN Left(acc.checks)
        ELSE IF /\ \/ Substr(Upper(env_name.s), SecretWord)
                   \/ Substr(Upper(env_name.s), PasswordWord)
                /\ "value" \in DOMAIN env.m
             THEN Going([acc.checks EXCEPT !.secrets_in_env =
                            Append(@, <<name, container_name, env_name>>)])
             ELSE acc

RECURSIVE EnvLoop(_, _, _, _, _)
EnvLoop(acc, name, container_name, envs, i) ==
    IF acc.raised \/ i > Len(envs) THEN acc
    ELSE EnvLoop(EnvStep(acc, name, container_name, envs[i]),
                 name, container_name, envs, i + 1)

\* for env in container.get("env", [])
EnvCheck(acc, name, container) ==
    LET envs == Iterate(Get(container, "env", YList(<<>>)))
    IN  IF acc.raised THEN acc
        ELSE IF envs = Err THEN Left(acc.checks)
        ELSE EnvLoop(acc, name, Get(container, "name", Unnamed), envs.l, 1)

\* the image registry check
ImageCheck(acc, name, container) ==
    LET image == Get(container, "image", YStr(<<>>))
    IN  IF acc.raised \/ Falsy(image) THEN acc
        ELSE IF InValueRaises(image) THEN Left(acc.checks)
        ELSE IF InValue(MtsRegistry, image) \/ InValue(DockerLibrary, image)
             THEN Going([acc.checks EXCEPT !.trusted_registry = Append(@, image)])
             ELSE Going([acc.checks EXCEPT !.image_pull_policy = Append(@, <<name, image>>)])

\* the readiness and liveness probe checks
ProbeCheck(acc, container) ==
    IF acc.raised THEN acc
    ELSE Going([acc.checks EXCEPT
                   !.readiness_probes_set =
                       @ \/ ~Falsy(Get(container, "readinessProbe", YNull)),
                   !.liveness_probes_set =
                       @ \/ ~Falsy(Get(container, "livenessProbe", YNull))])

\* the resource limits check
LimitsCheck(acc, container) ==
    LET limits == Get(Get(container, "resources", EmptyMap), "limits", YNull)
    IN  IF acc.raised THEN acc
        ELSE IF limits = Err THEN Left(acc.checks)
        ELSE IF Falsy(limits) THEN acc
        ELSE Going([acc.checks EXCEPT !.resource_limits_set = TRUE])

\* the added capabilities check
CapabilitiesCheck(acc, name, container) ==
    LET caps == Get(Get(Get(container, "securityContext", EmptyMap),
                        "capabilities", EmptyMap), "add", YList(<<>>))
    IN  IF acc.raised THEN acc
        ELSE IF caps = Err THEN Left(acc.checks)
        ELSE IF Falsy(caps) THEN acc
        ELSE IF Iterate(caps) = Err THEN Left(acc.checks)
        ELSE Going([acc.checks EXCEPT !.capabilities_added =
                       @ \o [i \in 1..Len(Iterate(caps).l) |->
                                <<name, Get(container, "name", Unnamed), Iterate(caps).l[i]>>]])

\* container_name = container.get("name", "unnamed") and the privileged
\* check
PrivilegedCheck(acc, name, container) ==
    LET privileged == Get(Get(container, "securityContext", EmptyMap), "privileged", YNull)
    IN  IF acc.raised THEN acc
        ELSE IF Get(container, "name", Unnamed) = Err \/ privileged = Err
             THEN Left(acc.checks)
        ELSE IF Falsy(privileged) THEN acc
        ELSE Going([acc.checks EXCEPT !.privileged_containers =
                       Append(@, <<name, Get(container, "name", Unnamed)>>)])

\* the body of the loop over the containers
ContainerCheck(acc, name, container) ==
    EnvCheck(
        ImageCheck(
            ProbeCheck(
                LimitsCheck(
                    CapabilitiesCheck(
                        PrivilegedCheck(acc, name, container),
                        name, container),
                    container),
                container),
            name, container),
        name, container)

RECURSIVE ContainerLoop(_, _, _, _)
ContainerLoop(acc, name, containers, i) ==
    IF acc.raised \/ i > Len(containers) THEN acc
    ELSE ContainerLoop(ContainerCheck(acc, name, containers[i]), name, containers, i + 1)

\* for container in spec.get("containers", [])
ContainersCheck(acc, name, spec) ==
    LET containers == Iterate(Get(spec, "containers", YList(<<>>)))
    IN  IF acc.raised THEN acc
        ELSE IF containers = Err THEN Left(acc.checks)
        ELSE ContainerLoop(acc, name, containers.l, 1)

\* the pod security context check; spec.get raises unless spec is a mapping
SecurityContextCheck(acc, spec) ==
    LET pod_security == Get(spec, "securityContext", EmptyMap)
    IN  IF acc.raised THEN acc
        ELSE IF pod_security = Err THEN Left(acc.checks)
        ELSE IF Falsy(pod_security) THEN acc
        ELSE IF Get(pod_security, "runAsNonRoot", YNull) = Err
             THEN Left([acc.checks EXCEPT !.security_context_present = TRUE])
        ELSE Going([acc.checks EXCEPT
                       !.security_context_present = TRUE,
                       !.run_as_non_root =
                           @ \/ ~Falsy(Get(pod_security, "runAsNonRoot", YNull))])

\* the host network check
HostNetworkCheck(acc, name, spec) ==
    IF acc.raised \/ Falsy(Get(spec, "hostNetwork", YNull)) THEN acc
    ELSE Going([acc.checks EXCEPT !.host_network_usage = Append(@, name)])

\* the body of the loop over the volumes
VolumeStep(acc, name, volume) ==
    LET host_path == Get(volume, "hostPath", YNull)
    IN  IF host_path = Err THEN Left(acc.checks)
        ELSE IF Falsy(host_path) THEN acc
        ELSE IF Item(host_path, "path") = Err THEN Left(acc.checks)
        ELSE Going([acc.checks EXCEPT !.host_path_volumes =
                       Append(@, <<name, Item(host_path, "path")>>)])

RECURSIVE VolumeLoop(_, _, _, _)
VolumeLoop(acc, name, volumes, i) ==
    IF acc.raised \/ i > Len(volumes) THEN acc
    ELSE VolumeLoop(VolumeStep(acc, name, volumes[i]), name, volumes, i + 1)

\* for volume in spec.get("volumes", [])
VolumesCheck(acc, name, spec) ==
    LET volumes == Iterate(Get(spec, "volumes", YList(<<>>)))
    IN  IF acc.raised THEN acc
        ELSE IF volumes = Err THEN Left(acc.checks)
        ELSE VolumeLoop(acc, name, volumes.l, 1)

\* the service account check: any non-empty serviceAccountName sets the flag
ServiceAccountCheck(acc, spec) ==
    IF acc.raised \/ Falsy(Get(spec, "serviceAccountName", YNull)) THEN acc
    ELSE Going([acc.checks EXCEPT !.service_account_set = TRUE])

\* the branch for kind == "Deployment"
DeploymentCheck(acc, name, doc) ==
    LET spec == Get(Get(Get(doc, "spec", EmptyMap), "template", EmptyMap), "spec", EmptyMap)
    IN  IF spec = Err THEN Left(acc.checks)
        ELSE ServiceAccountCheck(
                 VolumesCheck(
                     HostNetworkCheck(
                         ContainersCheck(SecurityContextCheck(acc, spec), name, spec),
                         name, spec),
                     name, spec),
                 spec)

\* the body of the loop over the documents of a file
DocCheck(acc, doc) ==
    LET kind == Get(doc, "kind", YNull)
        name == Get(Get(doc, "metadata", EmptyMap), "name", Unnamed)
    IN  IF Falsy(doc) THEN acc
        ELSE IF kind = Err \/ name = Err THEN Left(acc.checks)
        ELSE IF kind = YStr("Deployment") THEN DeploymentCheck(acc, name, doc)
        ELSE IF kind = YStr("NetworkPolicy")
             THEN Going([acc.checks EXCEPT !.network_policies_present = TRUE])
        ELSE acc

RECURSIVE DocLoop(_, _, _)
DocLoop(acc, docs, i) ==
    IF acc.raised \/ i > Len(docs) THEN acc
    ELSE DocLoop(DocCheck(acc, docs[i]), docs, i + 1)

\* the try block for one file; the except clause keeps what the checks
\* record already holds and goes on with the next file
FileCheck(checks, content) ==
    IF safe_load_all(content) = Err THEN checks
    ELSE DocLoop(Going(checks), safe_load_all(content).l, 1).checks

\* the loop over manifests.items(); a file whose name does not end in
\* .yaml is passed over
RECURSIVE FilesCheck(_, _, _)
FilesCheck(checks, m, names) ==
    IF names = {} THEN checks
    ELSE LET f == CHOOSE x \in names : TRUE
         IN  FilesCheck(IF EndsWith(f, YamlSuffix) THEN FileCheck(checks, m[f]) ELSE checks,
                        m, names \ {f})

\* SecurityAnalyzer._run_basic_checks
run_basic_checks(m) == FilesCheck(InitialChecks, m, DOMAIN m)

\* SecurityAnalyzer._check_compliance
check_compliance(checks) ==
    [pod_security_baseline |->
        checks.security_context_present /\ Len(checks.privileged_containers) = 0,
     pod_security_restricted |->
        checks.run_as_non_root /\ checks.resource_limits_set
            /\ Len(checks.host_network_usage) = 0,
     zero_trust_ready |->
        checks.network_policies_present /\ checks.service_account_set]

(***************************************************************************)
(* Bounds and input pools                                                  *)
(***************************************************************************)
\* dotted groups in a candidate subnet text
MaxOctets == 5
\* entries in each of the LLM's issue lists
MaxIssues == 8
\* files in a document map
MaxFiles == 3
\* changes in one optimization
MaxChanges == 2
\* environment variables of one container
MaxEnv == 2

\* not yet computed
Pending == [pending |-> TRUE]

IsDone(outcome) == "raised" \in DOMAIN outcome

\* ---- TelecomGenerator inputs
ComponentTypes == DOMAIN TELECOM_COMPONENTS \cup {"generic", "nginx"}

ServiceNames == {"moscow-upf", "test-billing"}

RECURSIVE JoinDots(_)
JoinDots(groups) ==
    IF Len(groups) = 1 THEN groups[1]
    ELSE groups[1] \o <<".">> \o JoinDots(Tail(groups))

OctetTexts == {<<"1", "0">>, <<"x">>, <<>>}

SubnetTails == {<<>>, <<"/">>, <<"/", "2", "4">>, <<"/", "x">>, <<"/", "2", "4", "/", "1">>}

SubnetTexts ==
    {JoinDots(g) \o tl : g \in SeqsOf(OctetTexts, 1, MaxOctets), tl \in SubnetTails}

\* ---- SecurityAnalyzer inputs
IssueLists == {[i \in 1..n |-> "issue"] : n \in 0..MaxIssues}

FindingLists == {<<>>, <<"web/app">>}

\* records _run_basic_checks can return: it sets run_as_non_root only
\* inside the branch that sets security_context_present
BasicChecks ==
    {c \in [security_context_present : BOOLEAN,
            run_as_non_root : BOOLEAN,
            privileged_containers : FindingLists,
            host_network_usage : FindingLists,
            secrets_in_env : FindingLists,
            resource_limits_set : BOOLEAN,
            network_policies_present : BOOLEAN,
            service_account_set : BOOLEAN] :
        c.run_as_non_root => c.security_context_present}

LlmAnalyses == [critical_issues : IssueLists, warnings : IssueLists]

\* ---- CostOptimizer inputs: quantities
Cpu1 == <<"1">>
Cpu500m == <<"5", "0", "0", "m">>
Cpu200m == <<"2", "0", "0", "m">>
Cpu250m == <<"2", "5", "0", "m">>
Mem2Gi == <<"2", "G", "i">>
Mem100Mi == <<"1", "0", "0", "M", "i">>
Mem512Mi == <<"5", "1", "2", "M", "i">>
Mem64Mi == <<"6", "4", "M", "i">>
MemJunk == <<"2", "G", "B">>
Sto100Gi == <<"1", "0", "0", "G", "i">>

\* ---- documents
Requests(cpu, memory) == YMap([cpu |-> cpu, memory |-> memory])

Container(name, requests) ==
    YMap([name |-> YStr(name), resources |-> YMap([requests |-> requests])])

BareContainer(name) == YMap([name |-> YStr(name)])

PodTemplate(containers) == YMap([spec |-> YMap([containers |-> YList(containers)])])

Metadata(name) == YMap([name |-> YStr(name)])

Deployment(name, replicas, containers) ==
    YMap([kind |-> YStr("Deployment"), metadata |-> Metadata(name),
          spec |-> YMap([replicas |-> replicas, template |-> PodTemplate(containers)])])

DeploymentNoReplicas(name, containers) ==
    YMap([kind |-> YStr("Deployment"), metadata |-> Metadata(name),
          spec |-> YMap([template |-> PodTemplate(containers)])])

DeploymentNoSpec(name) ==
    YMap([kind |-> YStr("Deployment"), metadata |-> Metadata(name)])

Service(name) ==
    YMap([kind |-> YStr("Service"), metadata |-> Metadata(name),
          spec |-> YMap([type |-> YStr("ClusterIP")])])

Claim(name, storage) ==
    YMap([kind |-> YStr("PersistentVolumeClaim"), metadata |-> Metadata(name),
          spec |-> YMap([resources |-> YMap([requests |-> YMap([storage |-> storage])])])])

\* a document that is a list, not a mapping
ListDoc == YList(<<YStr(<<"a">>)>>)

WebSimple == Deployment("web", YInt(3), <<Container("app", Requests(YStr(Cpu1), YStr(Mem2Gi)))>>)
WebTwo == Deployment("web", YInt(2),
              <<Container("app", Requests(YStr(Cpu500m), YStr(Mem100Mi))),
                Container("sidecar", Requests(YStr(Cpu200m), YStr(Mem512Mi)))>>)
WebBare == DeploymentNoReplicas("web", <<BareContainer("app")>>)
WebCpuOnly == Deployment("web", YInt(2),
                  <<Container("app", YMap([cpu |-> YStr(Cpu500m)])), BareContainer("sidecar")>>)
ApiSmall == Deployment("api", YInt(2), <<Container("app", Requests(YStr(Cpu200m), YStr(Mem100Mi)))>>)
ApiJunkMemory == Deployment("api", YInt(1),
                     <<Container("app", Requests(YStr(Cpu200m), YStr(MemJunk))),
                       Container("sidecar", Requests(YStr(Cpu1), YStr(Mem2Gi)))>>)
WebIntCpu == Deployment("web", YInt(2),
                 <<Container("app", Requests(YStr(Cpu1), YStr(Mem2Gi))),
                   Container("sidecar", Requests(YInt(1), YStr(Mem2Gi)))>>)
WebTextReplicas == Deployment("web", YStr(<<"3">>),
                       <<Container("app", Requests(YStr(Cpu1), YStr(Mem2Gi)))>>)
DataClaim == Claim("data", YStr(Sto100Gi))
\* a container whose resources key is written with no value
WebNullResources ==
    Deployment("web", YInt(1), <<YMap([name |-> YStr("app"), resources |-> YNull])>>)

\* ---- files: the first file of a document map
PrimaryFiles ==
    {YamlText(<<WebSimple>>, "written"),
     YamlText(<<WebSimple>>, "dumped"),
     YamlText(<<WebTwo>>, "written"),
     YamlText(<<WebBare>>, "written"),
     YamlText(<<WebCpuOnly>>, "written"),
     YamlText(<<ApiJunkMemory>>, "written"),
     YamlText(<<WebIntCpu>>, "written"),
     YamlText(<<WebTextReplicas>>, "written"),
     YamlText(<<DeploymentNoSpec("web")>>, "written"),
     YamlText(<<WebNullResources>>, "written"),
     YamlText(<<WebSimple, Service("web")>>, "written"),
     YamlText(<<WebTwo, ApiSmall>>, "written"),
     YamlText(<<WebSimple, ListDoc>>, "written"),
     YamlText(<<YNull, WebTwo>>, "written"),
     YamlText(<<WebSimple, DataClaim>>, "written"),
     YamlText(<<Service("web")>>, "written"),
     YamlText(<<>>, "written"),
     MalformedText}

\* ---- files: the further files of a document map
FurtherFiles == {YamlText(<<ApiSmall>>, "written"), MalformedText}

FileNames ==
    <<<<"d", "e", "p", "l", "o", "y", ".", "y", "a", "m", "l">>,
      <<"a", "p", "i", ".", "y", "m", "l">>,
      <<"e", "x", "t", "r", "a", ".", "y", "a", "m", "l">>,
      <<"m", "o", "r", "e", ".", "y", "a", "m", "l">>>>

\* document maps of up to MaxFiles files
ManifestSets ==
    {EmptyDict} \cup
    UNION {{[f \in {FileNames[i] : i \in 1..n} |->
                IF f = FileNames[1] THEN first ELSE rest[f]] :
               first \in PrimaryFiles,
               rest \in [{FileNames[i] : i \in 2..n} -> FurtherFiles]} :
           n \in 1..Min(MaxFiles, Len(FileNames))}

\* ---- SecurityAnalyzer inputs: environment variables
EnvLiteral(name, value) == YMap([name |-> YStr(name), value |-> value])
EnvFromSecret(name) ==
    YMap([name |-> YStr(name),
          valueFrom |-> YMap([secretKeyRef |-> YMap([name |-> YStr("store"),
                                                      key |-> YStr("password")])])])

EnvPool ==
    {EnvLiteral(<<"D", "B", "_", "P", "A", "S", "S", "W", "O", "R", "D">>, YStr(<<"h", "u", "n", "t", "e", "r", "2">>)),
     EnvLiteral(<<"d", "b", "_", "p", "a", "s", "s", "w", "o", "r", "d">>, YStr(<<"h", "u", "n", "t", "e", "r", "2">>)),
     EnvLiteral(<<"L", "O", "G", "_", "L", "E", "V", "E", "L">>, YStr(<<"h", "u", "n", "t", "e", "r", "2">>)),
     EnvLiteral(<<"A", "p", "i", "S", "e", "c", "r", "e", "t", "K", "e", "y">>, YNull),
     EnvFromSecret(<<"A", "p", "i", "S", "e", "c", "r", "e", "t", "K", "e", "y">>),
     YStr(<<"L", "O", "G", "_", "L", "E", "V", "E", "L">>)}

EnvLists == SeqsOf(EnvPool, 0, MaxEnv)

\* ---- SecurityAnalyzer inputs: containers and pods
TrustedImage == YStr(<<"r", "e", "g", "i", "s", "t", "r", "y", ".", "m", "t", "s", ".", "r", "u", "/", "u", "p", "f">>)
OtherImage == YStr(<<"g", "h", "c", "r", ".", "i", "o", "/", "u", "p", "f">>)

ScanContainer(name, image, extras) ==
    YMap([name |-> YStr(name), image |-> image] @@ extras)

LimitsField == [resources |-> YMap([limits |-> YMap([cpu |-> YStr(Cpu1)])])]
PrivilegedField == [securityContext |-> YMap([privileged |-> YBool(TRUE)])]
EnvField(envs) == [env |-> YList(envs)]

ContainerExtras ==
    {EmptyDict, LimitsField, PrivilegedField, LimitsField @@ PrivilegedField}

PodExtras ==
    {a @@ b @@ c :
        a \in {EmptyDict,
               [securityContext |-> YMap([runAsNonRoot |-> YBool(TRUE)])],
               [securityContext |-> YMap([runAsNonRoot |-> YBool(FALSE)])]},
        b \in {EmptyDict,
               [serviceAccountName |-> YStr(<<"d", "e", "f", "a", "u", "l", "t">>)],
               [serviceAccountName |-> YStr(<<"u", "p", "f", "-", "s", "a">>)]},
        c \in {EmptyDict, [hostNetwork |-> YBool(TRUE)]}}

ScanDeployment(name, containers, extras) ==
    YMap([kind |-> YStr("Deployment"), metadata |-> Metadata(name),
          spec |-> YMap([template |->
                            YMap([spec |-> YMap([containers |-> YList(containers)]
                                                @@ extras)])])])

NetworkPolicy == YMap([kind |-> YStr("NetworkPolicy"), metadata |-> Metadata("deny-all")])

\* a Deployment that names no service account
NoAccountDeployment ==
    ScanDeployment("api", <<ScanContainer("app", TrustedImage, LimitsField)>>,
                   [securityContext |-> YMap([runAsNonRoot |-> YBool(TRUE)])])

\* a Deployment whose volume names a hostPath without a path
BadVolumeDeployment ==
    ScanDeployment("web", <<ScanContainer("app", OtherImage, EmptyDict)>>,
                   [volumes |-> YList(<<YMap([hostPath |-> YMap([type |-> YStr("Directory")])])>>),
                    serviceAccountName |-> YStr(<<"u", "p", "f", "-", "s", "a">>)])

\* Deployments of one container, over the fields the pod and the container
\* checks read
ScanPlainDocs ==
    {ScanDeployment("web", <<ScanContainer("app", TrustedImage, extras)>>, pod) :
        extras \in ContainerExtras, pod \in PodExtras}
    \cup {BadVolumeDeployment, ListDoc}

ScanDocs ==
    ScanPlainDocs
    \cup {ScanDeployment("web", <<ScanContainer("app", OtherImage, EnvField(envs)),
                                  ScanContainer("sidecar", TrustedImage, LimitsField)>>,
                         [serviceAccountName |-> YStr(<<"u", "p", "f", "-", "s", "a">>)]) :
             envs \in EnvLists}

\* ---- SecurityAnalyzer inputs: files and document maps
ScanPrimaryFiles ==
    {YamlText(<<d>> \o rest, "written") :
        d \in ScanDocs,
        rest \in {<<>>, <<NetworkPolicy>>, <<NoAccountDeployment, NetworkPolicy>>}}

ScanFurtherFiles ==
    {YamlText(<<NetworkPolicy>>, "written"),
     YamlText(<<NoAccountDeployment>>, "written"),
     MalformedText}

\* maps of one file with any of the documents, and maps of several files
\* whose first holds one plain Deployment
ScanSets ==
    {EmptyDict}
    \cup {(FileNames[1] :> first) : first \in ScanPrimaryFiles}
    \cup UNION {{[f \in {FileNames[i] : i \in 1..n} |->
                     IF f = FileNames[1] THEN YamlText(<<d>>, "written") ELSE rest[f]] :
                    d \in ScanPlainDocs,
                    rest \in [{FileNames[i] : i \in 2..n} -> ScanFurtherFiles]} :
                n \in 2..Min(MaxFiles, Len(FileNames))}

ScanAnalyses ==
    {a \in LlmAnalyses : Len(a.critical_issues) <= 1 /\ Len(a.warnings) <= 1}

\* ---- optimization changes, as the LLM is asked to shape them
Change(type, target, to) == [type |-> type, target |-> target, to |-> to]

ChangePool ==
    {Change("reduce_replicas", "web", YStr(<<"2">>)),
     Change("reduce_replicas", "web", YInt(1)),
     Change("reduce_replicas", "web", YStr(<<"5", "0", "%">>)),
     Change("reduce_cpu", "web", YStr(Cpu250m)),
     Change("reduce_memory", "web", YStr(Mem64Mi)),
     Change("reduce_replicas", "api", YStr(<<"1">>)),
     Change("reduce_cpu", "api", YStr(Cpu250m)),
     Change("enable_spot", "web", YStr(<<"1">>)),
     Change("resize", "web", YStr(<<"2">>))}

ChangeLists == SeqsOf(ChangePool, 0, MaxChanges)

(***************************************************************************)
(* Specification of the manifest synthesizer                               *)
(***************************************************************************)
SynthIdle ==
    /\ component_type = "generic"
    /\ stack = Pending
    /\ subnet = <<>>
    /\ nad = Pending

ScoreIdle ==
    /\ basic_checks = Pending
    /\ llm_analysis = Pending
    /\ security_score = Pending
    /\ compliance = Pending

CostIdle ==
    /\ manifests = EmptyDict
    /\ optimization = <<>>
    /\ current_cost = Pending
    /\ optimized_manifests = Pending
    /\ optimized_cost = Pending
    /\ report = Pending
    /\ pc = "idle"

HelperIdle ==
    /\ secret_call = Pending
    /\ secret = Pending
    /\ quantity = Pending
    /\ parsed = Pending
    /\ call = Pending
    /\ returned = Pending

SynthInit ==
    /\ HelperIdle
    /\ component_type \in ComponentTypes
    /\ stack = Pending
    /\ subnet \in SubnetTexts
    /\ nad = Pending
    /\ ScoreIdle
    /\ CostIdle

\* a call of generate_full_stack
GenerateFullStack ==
    /\ stack = Pending
    /\ \E service_name \in ServiceNames :
           stack' = generate_full_stack(component_type, service_name, "telecom")
    /\ UNCHANGED <<helperVars, component_type, subnet, nad, scoreVars, costVars>>

\* a call of generate_networkattachmentdefinition_yaml
GenerateNetworkAttachment ==
    /\ nad = Pending
    /\ nad' = generate_networkattachmentdefinition_yaml("n3", "telecom", subnet)
    /\ UNCHANGED <<helperVars, component_type, stack, subnet, scoreVars, costVars>>

SynthNext == GenerateFullStack \/ GenerateNetworkAttachment

SpecSynth == SynthInit /\ [][SynthNext]_vars

(***************************************************************************)
(* Specification of the secret generator                                   *)
(***************************************************************************)
\* the three states of a flag of a descriptor: key absent, true, false
FlagStates == {"absent", "true", "false"}

Flag(key, state) == IF state = "absent" THEN EmptyDict ELSE (key :> (state = "true"))

\* descriptors: those of the catalog, and every setting of the two flags
SecretConfigs ==
    {TELECOM_COMPONENTS[t] : t \in DOMAIN TELECOM_COMPONENTS}
    \cup {Flag("needs_database", d) @@ Flag("needs_queue", q) : d, q \in FlagStates}

Namespaces == {"telecom", "billing"}

SecretInit ==
    /\ secret_call \in [service_name : ServiceNames, namespace : Namespaces,
                        config : SecretConfigs]
    /\ secret = Pending
    /\ quantity = Pending
    /\ parsed = Pending
    /\ call = Pending
    /\ returned = Pending
    /\ SynthIdle
    /\ ScoreIdle
    /\ CostIdle

\* a call of _generate_secret_yaml
GenerateSecret ==
    /\ secret_call # Pending
    /\ secret = Pending
    /\ secret' = generate_secret_yaml(secret_call.service_name, secret_call.namespace,
                                      secret_call.config)
    /\ UNCHANGED <<secret_call, quantity, parsed, call, returned, synthVars, scoreVars, costVars>>

SecretNext == GenerateSecret

SpecSecret == SecretInit /\ [][SecretNext]_vars

(***************************************************************************)
(* Specification of the quantity parsers                                   *)
(***************************************************************************)
\* the largest number of the quantities taken one by one
MaxQuantity == 40

QuantityNumbers == 0..MaxQuantity \cup {100, 500, 1000, 1024, 2048}

QuantityUnits == {<<>>, <<"m">>, <<"K", "i">>, <<"M", "i">>, <<"G", "i">>, <<"T", "i">>,
                  <<"G", "B">>}

\* the values a resource request can hold: a number with or without a unit,
\* a decimal fraction, an integer that YAML did not read as a string
Quantities ==
    {YStr(NatToText(n) \o unit) : n \in QuantityNumbers, unit \in QuantityUnits}
    \cup {YStr(<<"0", ".", "5">>), YStr(<<"1", ".", "5", "G", "i">>), YStr(<<"m">>), YInt(1)}

ParseInit ==
    /\ quantity \in Quantities
    /\ parsed = Pending
    /\ secret_call = Pending
    /\ secret = Pending
    /\ call = Pending
    /\ returned = Pending
    /\ SynthIdle
    /\ ScoreIdle
    /\ CostIdle

\* a call of _parse_cpu
ParseCpu ==
    /\ quantity # Pending
    /\ parsed = Pending
    /\ parsed' = [parser |-> "cpu", value |-> parse_cpu(quantity)]
    /\ UNCHANGED <<quantity, secret_call, secret, call, returned, synthVars, scoreVars, costVars>>

\* a call of _parse_memory
ParseMemory ==
    /\ quantity # Pending
    /\ parsed = Pending
    /\ parsed' = [parser |-> "memory", value |-> parse_memory(quantity)]
    /\ UNCHANGED <<quantity, secret_call, secret, call, returned, synthVars, scoreVars, costVars>>

ParseNext == ParseCpu \/ ParseMemory

SpecParse == ParseInit /\ [][ParseNext]_vars

(***************************************************************************)
(* Specification of the functions called on their own                      *)
(***************************************************************************)
\* scores, with some on either side of the range of the clamp
Scores == (0 - 5)..105

\* the largest index handed to the allocator
MaxIndex == 260

\* the longest of the names built from single characters
MaxName == 3

NameChars == {"a", "9", "-", "A", "_", " ", "\n", "$"}

Repeated(c, n) == [i \in 1..n |-> c]

\* names: every text of up to MaxName characters, names around the length
\* limit, and names of the kind a caller passes
Names ==
    SeqsOf(NameChars, 0, MaxName)
    \cup {Repeated("a", MaxNameLength), Repeated("a", MaxNameLength + 1),
          Repeated("a", MaxNameLength - 1) \o <<"\n">>,
          Repeated("-", MaxNameLength + 1),
          <<"m", "y", "-", "a", "p", "p">>, <<"M", "y", "A", "p", "p">>,
          <<"w", "e", "b", "-", "s", "e", "r", "v", "e", "r", "-", "1">>,
          <<".", ".", "/", "e", "t", "c">>, <<"a", "p", "p", "\n">>}

\* the longest of the secrets built from single characters
MaxSecret == 9

\* secrets: every text of up to MaxSecret characters over two letters, and
\* keys of characters that all differ
Secrets ==
    SeqsOf({"a", "b"}, 0, MaxSecret)
    \cup {<<"w", "x", "y", "z">>, <<"s", "k", "-", "a", "n">>,
          <<"s", "k", "-", "a", "n", "t", "-", "1">>,
          <<"s", "k", "-", "a", "n", "t", "-", "1", "2", "3", "4", "5", "m", "n", "o", "p">>}

Calls ==
    {[fn |-> "get_security_grade", score |-> score] : score \in Scores}
    \cup {[fn |-> "get_ip", index |-> index] : index \in 0..MaxIndex}
    \cup {[fn |-> "validate_k8s_resource_name", name |-> name] : name \in Names}
    \cup {[fn |-> "sanitize_secret_value", value |-> value] : value \in Secrets}

UtilInit ==
    /\ call \in Calls
    /\ returned = Pending
    /\ secret_call = Pending
    /\ secret = Pending
    /\ quantity = Pending
    /\ parsed = Pending
    /\ SynthIdle
    /\ ScoreIdle
    /\ CostIdle

\* a call of _get_security_grade
GetSecurityGrade ==
    /\ call # Pending
    /\ call.fn = "get_security_grade"
    /\ returned = Pending
    /\ returned' = [raised |-> FALSE, value |-> get_security_grade(call.score)]
    /\ UNCHANGED <<call, secret_call, secret, quantity, parsed, synthVars, scoreVars, costVars>>

\* a call of NetworkConfig.get_ip
GetIp ==
    /\ call # Pending
    /\ call.fn = "get_ip"
    /\ returned = Pending
    /\ returned' = [raised |-> FALSE, value |-> get_ip(call.index)]
    /\ UNCHANGED <<call, secret_call, secret, quantity, parsed, synthVars, scoreVars, costVars>>

\* a call of validate_k8s_resource_name
ValidateResourceName ==
    /\ call # Pending
    /\ call.fn = "validate_k8s_resource_name"
    /\ returned = Pending
    /\ returned' = validate_k8s_resource_name(call.name)
    /\ UNCHANGED <<call, secret_call, secret, quantity, parsed, synthVars, scoreVars, costVars>>

\* a call of sanitize_secret_value
SanitizeSecretValue ==
    /\ call # Pending
    /\ call.fn = "sanitize_secret_value"
    /\ returned = Pending
    /\ returned' = [raised |-> FALSE, value |-> sanitize_secret_value(call.value)]
    /\ UNCHANGED <<call, secret_call, secret, quantity, parsed, synthVars, scoreVars, costVars>>

UtilNext ==
    \/ GetSecurityGrade
    \/ GetIp
    \/ ValidateResourceName
    \/ SanitizeSecretValue

SpecUtil == UtilInit /\ [][UtilNext]_vars


(***************************************************************************)
(* Specification of the security score                                     *)
(***************************************************************************)
ScoreInit ==
    /\ HelperIdle
    /\ basic_checks \in BasicChecks
    /\ llm_analysis \in LlmAnalyses
    /\ security_score = Pending
    /\ compliance = Pending
    /\ SynthIdle
    /\ CostIdle

\* a call of _calculate_security_score
CalculateSecurityScore ==
    /\ security_score = Pending
    /\ security_score' = [raised |-> FALSE,
                          score |-> calculate_security_score(basic_checks, llm_analysis)]
    /\ UNCHANGED <<helperVars, basic_checks, llm_analysis, compliance, synthVars, costVars>>

ScoreNext == CalculateSecurityScore

SpecScore == ScoreInit /\ [][ScoreNext]_vars

(***************************************************************************)
(* Specification of analyze_costs                                          *)
(***************************************************************************)
CostInit ==
    /\ HelperIdle
    /\ manifests \in ManifestSets
    /\ optimization = <<>>
    /\ current_cost = Pending
    /\ optimized_manifests = Pending
    /\ optimized_cost = Pending
    /\ report = Pending
    /\ pc = "start"
    /\ SynthIdle
    /\ ScoreIdle

\* step 1: current_cost = self._calculate_current_cost(manifests)
CalculateCurrentCost ==
    /\ pc = "start"
    /\ current_cost' = calculate_current_cost(manifests)
    /\ pc' = "costed"
    /\ UNCHANGED <<helperVars, report, manifests, optimization, optimized_manifests, optimized_cost,
                   synthVars, scoreVars>>

\* step 2: the LLM answers with a list of changes
LlmOptimize ==
    /\ pc = "costed"
    /\ optimization' \in ChangeLists
    /\ pc' = "proposed"
    /\ UNCHANGED <<helperVars, report, manifests, current_cost, optimized_manifests, optimized_cost,
                   synthVars, scoreVars>>

\* step 3: optimized_manifests = self._apply_optimizations(manifests, optimization)
ApplyOptimizations ==
    /\ pc = "proposed"
    /\ \E optimized \in {apply_optimizations(manifests, optimization)} :
           /\ optimized_manifests' = optimized
           /\ manifests' = optimized.caller
    /\ pc' = "applied"
    /\ UNCHANGED <<helperVars, report, optimization, current_cost, optimized_cost,
                   synthVars, scoreVars>>

\* step 4: optimized_cost = self._calculate_current_cost(optimized_manifests)
RecalculateCost ==
    /\ pc = "applied"
    /\ optimized_cost' = calculate_current_cost(optimized_manifests.manifests)
    /\ pc' = "done"
    /\ UNCHANGED <<helperVars, report, manifests, optimization, current_cost, optimized_manifests,
                   synthVars, scoreVars>>

\* step 5: the report is returned
Report ==
    /\ pc = "done"
    /\ report' = make_report(current_cost, optimized_cost)
    /\ pc' = "reported"
    /\ UNCHANGED <<helperVars, manifests, optimization, current_cost, optimized_manifests,
                   optimized_cost, synthVars, scoreVars>>

CostNext ==
    \/ CalculateCurrentCost
    \/ LlmOptimize
    \/ ApplyOptimizations
    \/ RecalculateCost
    \/ Report

SpecCost == CostInit /\ [][CostNext]_vars

(***************************************************************************)
(* Specification of analyze_security                                       *)
(***************************************************************************)
ScanInit ==
    /\ HelperIdle
    /\ manifests \in ScanSets
    /\ optimization = <<>>
    /\ current_cost = Pending
    /\ optimized_manifests = Pending
    /\ optimized_cost = Pending
    /\ report = Pending
    /\ pc = "scan"
    /\ SynthIdle
    /\ ScoreIdle

\* step 1: basic_checks = self._run_basic_checks(manifests)
RunBasicChecks ==
    /\ pc = "scan"
    /\ basic_checks' = run_basic_checks(manifests)
    /\ pc' = "checked"
    /\ UNCHANGED <<helperVars, report, llm_analysis, security_score, compliance, manifests, optimization,
                   current_cost, optimized_manifests, optimized_cost, synthVars>>

\* steps 2 and 3: the LLM answers with its issue lists
LlmSecurityAnalysis ==
    /\ pc = "checked"
    /\ llm_analysis' \in ScanAnalyses
    /\ pc' = "analysed"
    /\ UNCHANGED <<helperVars, report, basic_checks, security_score, compliance, manifests, optimization,
                   current_cost, optimized_manifests, optimized_cost, synthVars>>

\* step 4: score = self._calculate_security_score(basic_checks, llm_analysis)
ScoreBasicChecks ==
    /\ pc = "analysed"
    /\ security_score' = [raised |-> FALSE,
                          score |-> calculate_security_score(basic_checks, llm_analysis)]
    /\ pc' = "scored"
    /\ UNCHANGED <<helperVars, report, basic_checks, llm_analysis, compliance, manifests, optimization,
                   current_cost, optimized_manifests, optimized_cost, synthVars>>

\* the report: "compliance": self._check_compliance(basic_checks)
CheckCompliance ==
    /\ pc = "scored"
    /\ compliance' = check_compliance(basic_checks)
    /\ pc' = "reported"
    /\ UNCHANGED <<helperVars, report, basic_checks, llm_analysis, security_score, manifests, optimization,
                   current_cost, optimized_manifests, optimized_cost, synthVars>>

ScanNext == RunBasicChecks \/ LlmSecurityAnalysis \/ ScoreBasicChecks \/ CheckCompliance

SpecScan == ScanInit /\ [][ScanNext]_vars

(***************************************************************************)
(* Claims about the manifest synthesizer (SpecSynth)                       *)
(***************************************************************************)
MinimalStack == {"deployment.yaml", "service.yaml"}

\* C1: for every component type that is not in the catalog, the lookup
\* returns the empty descriptor and generate_full_stack completes without
\* raising, returning exactly deployment.yaml and service.yaml.
C1_UnknownTypeYieldsMinimalStack ==
    (IsDone(stack) /\ component_type \notin DOMAIN TELECOM_COMPONENTS) =>
        /\ get_component_config(component_type) = EmptyDict
        /\ ~stack.raised
        /\ DOMAIN stack.manifests = MinimalStack

\* a.b.c.d/n: four dotted groups of decimal digits, one slash, a decimal
\* prefix length
IsCidr(text) ==
    LET parts == Split(text, "/")
        groups == Split(parts[1], ".")
    IN  /\ Len(parts) = 2
        /\ AllDigits(parts[2])
        /\ Len(groups) = 4
        /\ \A i \in 1..4 : AllDigits(groups[i])

C3_RawScore ==
    LET flag(b, penalty) == IF b THEN penalty ELSE 0
    IN  100 - 15 * Len(llm_analysis.critical_issues)
            - 5 * Len(llm_analysis.warnings)
            - flag(~basic_checks.security_context_present, 10)
            - flag(~basic_checks.run_as_non_root, 10)
            - flag(~basic_checks.resource_limits_set, 10)
            - flag(~basic_checks.network_policies_present, 10)
            - flag(basic_checks.privileged_containers # <<>>, 20)
            - flag(basic_checks.secrets_in_env # <<>>, 15)

\* C3: the score is 100 minus the listed penalties, clamped, so it always
\* lies in [0, 100].
C3_ScoreIsClampedPenaltySum ==
    IsDone(security_score) =>
        /\ security_score.score \in 0..100
        /\ C3_RawScore < 0 => security_score.score = 0
        /\ C3_RawScore \in 0..100 => security_score.score = C3_RawScore

\* C3 witness: the penalties pass 100 and the score returned is 0
C3_Witness ==
    /\ IsDone(security_score)
    /\ C3_RawScore < 0
    /\ security_score.score = 0

(***************************************************************************)
(* Claims about the cost model (SpecCost)                                  *)
(***************************************************************************)
Absent == [t |-> "absent"]

\* the value under a path of keys, Absent where a key is missing or the
\* value above it is no mapping
RECURSIVE Path(_, _)
Path(v, keys) ==
    IF Len(keys) = 0 THEN v
    ELSE IF v.t = "map" /\ Head(keys) \in DOMAIN v.m
         THEN Path(v.m[Head(keys)], Tail(keys))
         ELSE Absent

IsDeployment(doc) == Path(doc, <<"kind">>) = YStr("Deployment")

DocName(doc) == Path(doc, <<"metadata", "name">>)

ContainersOf(doc) ==
    LET c == Path(doc, <<"spec", "template", "spec", "containers">>)
    IN  IF c.t = "list" THEN c.l ELSE <<>>

ReplicasOf(doc) ==
    LET r == Path(doc, <<"spec", "replicas">>)
    IN  IF r.t = "int" THEN r.n ELSE 1

YamlNames(m) == {f \in DOMAIN m : EndsWith(f, YamlSuffix)}

With(m, name, content) ==
    [f \in DOMAIN m \cup {name} |-> IF f = name THEN content ELSE m[f]]

\* a file name no document map of the model uses
FreshName == <<"n", "e", "w", ".", "y", "a", "m", "l">>

\* every container states a cpu and a memory request that parse
DeclaresRequests(container) ==
    /\ parse_cpu(Path(container, <<"resources", "requests", "cpu">>)) # Err
    /\ parse_memory(Path(container, <<"resources", "requests", "memory">>)) # Err

\* a document set of well-formed documents in which every container
\* declares its requests
AllDeclared(m) ==
    \A f \in DOMAIN m :
        /\ m[f].ok
        /\ \A i \in 1..Len(m[f].docs) :
              LET doc == m[f].docs[i]
              IN  /\ doc.t \in {"null", "map"}
                  /\ IsDeployment(doc) =>
                        /\ Path(doc, <<"spec", "replicas">>).t \in {"absent", "int"}
                        /\ Path(doc, <<"spec", "template", "spec", "containers">>).t = "list"
                        /\ \A k \in 1..Len(ContainersOf(doc)) :
                              DeclaresRequests(ContainersOf(doc)[k])

\* (cores x cpu_price + gigabytes x memory_price) x replicas
ExpectedContainer(container, replicas) ==
    RatMul(RatAdd(RatMul(parse_cpu(Path(container, <<"resources", "requests", "cpu">>)),
                         Rat(CpuCorePrice, 1)),
                  RatMul(parse_memory(Path(container, <<"resources", "requests", "memory">>)),
                         Rat(MemoryGbPrice, 1))),
           Rat(replicas, 1))

RECURSIVE SumRat(_)
SumRat(xs) == IF Len(xs) = 0 THEN Rat(0, 1) ELSE RatAdd(Head(xs), SumRat(Tail(xs)))

ExpectedDeployment(doc) ==
    SumRat([k \in 1..Len(ContainersOf(doc)) |->
               ExpectedContainer(ContainersOf(doc)[k], ReplicasOf(doc))])

ExpectedFile(content) ==
    SumRat([i \in 1..Len(content.docs) |->
               IF IsDeployment(content.docs[i])
               THEN ExpectedDeployment(content.docs[i]) ELSE Rat(0, 1)])

\* the sum over the Deployment documents of the files named
RECURSIVE ExpectedSum(_, _)
ExpectedSum(m, names) ==
    IF names = {} THEN Rat(0, 1)
    ELSE LET f == CHOOSE x \in names : TRUE
         IN  RatAdd(ExpectedFile(m[f]), ExpectedSum(m, names \ {f}))

Costed == pc = "costed"

\* C4 as stated: for any document set in which every container declares
\* cpu and memory requests, the cost is exactly the sum over all Deployment
\* documents and containers of (cores x cpu_price + gigabytes x
\* memory_price) x replicas.
C4_CostIsExactSum ==
    (Costed /\ AllDeclared(manifests)) =>
        /\ ~current_cost.raised
        /\ Rat(current_cost.cost, 100) = ExpectedSum(manifests, DOMAIN manifests)

\* an amount in hundredths is the fraction x rounded to two decimals
NearestHundredth(amount, x) ==
    LET diff == amount * x.d - 100 * x.n
    IN  2 * (IF diff >= 0 THEN diff ELSE 0 - diff) <= x.d

\* C4 amended: the cost is that sum taken over the files whose name ends in
\* .yaml and rounded to two decimals; the empty set costs 0 and one
\* container with replicas 3, cpu 1, memory 2Gi costs 8100.
C4_CostIsRoundedSumOfYamlFiles ==
    (Costed /\ AllDeclared(manifests)) =>
        /\ ~current_cost.raised
        /\ NearestHundredth(current_cost.cost,
                            ExpectedSum(manifests, YamlNames(manifests)))
        /\ manifests = EmptyDict => current_cost.cost = 0
        /\ manifests = [f \in {FileNames[1]} |-> YamlText(<<WebSimple>>, "written")]
              => current_cost.cost = 8100 * 100

\* C4 witness: a costed set whose exact sum has more than two decimals
C4_Witness ==
    /\ Costed
    /\ AllDeclared(manifests)
    /\ current_cost.cost > 0
    /\ Rat(current_cost.cost, 100) # ExpectedSum(manifests, YamlNames(manifests))

\* C5: a PersistentVolumeClaim document adds gigabytes(storage) x
\* storage_price: a set with a 100Gi claim costs 100 x storage_price more
\* than the same set without it.
C5_ClaimStorageIsCharged ==
    Costed =>
        calculate_current_cost(
            With(manifests, FreshName, YamlText(<<DataClaim>>, "written"))).cost
        = current_cost.cost + 100 * StorageGbPrice * 100

\* files the cost must pass over: malformed YAML, and documents of kinds
\* the cost model does not price
OtherKind(kind, name) ==
    YMap([kind |-> YStr(kind), metadata |-> Metadata(name),
          spec |-> YMap([replicas |-> YInt(3),
                         template |-> PodTemplate(
                             <<Container("app", Requests(YStr(Cpu1), YStr(Mem2Gi)))>>)])])

SkippedFiles ==
    {MalformedText,
     YamlText(<<Service("web")>>, "written"),
     YamlText(<<OtherKind("StatefulSet", "web")>>, "written"),
     YamlText(<<Service("web"), OtherKind("Widget", "api")>>, "dumped")}

\* C6: a file of malformed YAML or of documents of unrecognized kind is
\* skipped: the cost of the set with the file equals the cost of the set
\* without it, a document of unrecognized kind inside a file does not stop
\* the documents after it from being costed, and no exception reaches the
\* caller.
C6_SkippedFilesCostNothing ==
    Costed =>
        /\ ~current_cost.raised
        /\ \A content \in SkippedFiles :
              LET r == calculate_current_cost(With(manifests, FreshName, content))
              IN  ~r.raised /\ r.cost = current_cost.cost
        /\ \A f \in DOMAIN manifests :
              manifests[f].ok =>
                 LET longer == YamlText(<<OtherKind("StatefulSet", "web")>> \o manifests[f].docs,
                                        manifests[f].layout)
                     r == calculate_current_cost(With(manifests, f, longer))
                 IN  ~r.raised /\ r.cost = current_cost.cost

\* C6 witness: a set with a malformed .yaml file beside a costed Deployment
C6_Witness ==
    /\ Costed
    /\ current_cost.cost > 0
    /\ \E f \in YamlNames(manifests) : manifests[f] = MalformedText

(***************************************************************************)
(* Claims about the edits (SpecCost)                                       *)
(***************************************************************************)
Applied == pc = "applied"

\* the type tags the optimizer asks the LLM to choose from
RecognizedTypes ==
    {"reduce_cpu", "reduce_memory", "reduce_replicas", "enable_spot", "optimize_hpa"}

\* the type tags an edit exists for
IsHandled(change) ==
    change.type \in {"reduce_replicas", "reduce_cpu", "reduce_memory"}

\* C7 as stated: a change whose type tag is not a recognized one is
\* reported to the caller as a failure, not silently accepted.
C7_UnknownTypeIsReported ==
    (Applied /\ \E i \in 1..Len(optimization) :
                    optimization[i].type \notin RecognizedTypes)
        => optimized_manifests.raised

\* C7 amended: a change whose type tag has no edit (enable_spot,
\* optimize_hpa or an unknown tag) is passed over without any failure: the
\* result is the result of the list without it, and a list of such changes
\* only leaves every entry as it was.
C7_UnhandledTypeIsPassedOver ==
    Applied =>
        /\ ~optimized_manifests.raised
        /\ optimized_manifests.manifests =
              apply_optimizations(manifests, SelectSeq(optimization, IsHandled)).manifests
        /\ (\A i \in 1..Len(optimization) : ~IsHandled(optimization[i]))
              => optimized_manifests.manifests = manifests

\* C7 witness: a change of unknown type aimed at a Deployment of the set
C7_Witness ==
    /\ Applied
    /\ optimization = <<Change("resize", "web", YStr(<<"2">>))>>
    /\ FileNames[1] \in DOMAIN manifests
    /\ manifests[FileNames[1]] = YamlText(<<WebSimple>>, "written")
    /\ optimized_manifests.manifests = manifests

NoTargetMatches ==
    \A i \in 1..Len(optimization) :
        \A f \in DOMAIN manifests :
            \A k \in 1..Len(manifests[f].docs) :
                DocName(manifests[f].docs[k]) # YStr(optimization[i].target)

\* C8: with any list of changes whose targets match the metadata name of
\* no document, every entry of the returned map is byte-identical to the
\* input and no error is raised.
C8_UnmatchedTargetsChangeNothing ==
    (Applied /\ NoTargetMatches) =>
        /\ ~optimized_manifests.raised
        /\ optimized_manifests.manifests = manifests

\* C8 witness: an edit aimed at a name no document of a written
\* Deployment file carries
C8_Witness ==
    /\ Applied
    /\ NoTargetMatches
    /\ \E i \in 1..Len(optimization) : IsHandled(optimization[i])
    /\ \E f \in YamlNames(manifests) :
          /\ manifests[f].ok
          /\ manifests[f].layout = "written"
          /\ \E k \in 1..Len(manifests[f].docs) : IsDeployment(manifests[f].docs[k])

\* the document without its spec.replicas
WithoutReplicas(doc) ==
    LET spec == Path(doc, <<"spec">>)
    IN  IF spec.t = "map"
        THEN SetItem(doc, "spec",
                     YMap([k \in DOMAIN spec.m \ {"replicas"} |-> spec.m[k]]))
        ELSE doc

\* the entry is a dump whose k-th document is doc with spec.replicas = v
ReplicasSet(out, k, doc, v) ==
    /\ out.ok
    /\ out.layout = "dumped"
    /\ Len(out.docs) >= k
    /\ Path(out.docs[k], <<"spec", "replicas">>) = v
    /\ WithoutReplicas(out.docs[k]) = WithoutReplicas(doc)

\* change i is the only change aimed at its target
OnlyChangeFor(i) ==
    \A j \in 1..Len(optimization) :
        j # i => optimization[j].target # optimization[i].target

\* the loop over the documents of the file raises nothing for target
Visitable(content, target) ==
    /\ content.ok
    /\ \A k \in 1..Len(content.docs) :
          LET doc == content.docs[k]
          IN  \/ Falsy(doc)
              \/ /\ doc.t = "map"
                 /\ Path(doc, <<"metadata">>).t \in {"absent", "map"}
                 /\ (IsDeployment(doc) /\ DocName(doc) = YStr(target))
                       => Path(doc, <<"spec">>).t = "map"

\* C9 as stated: a reduce_replicas change to value v aimed at a Deployment
\* named X returns a re-serialized document for X whose spec.replicas is
\* the integer v and whose every other field is as in the input.
C9_ReplicasAreSet ==
    Applied =>
        \A i \in 1..Len(optimization) :
            (/\ optimization[i].type = "reduce_replicas"
             /\ PyInt(optimization[i].to) # Err
             /\ OnlyChangeFor(i)) =>
                \A f \in DOMAIN manifests :
                    \A k \in 1..Len(manifests[f].docs) :
                        LET doc == manifests[f].docs[k]
                        IN  (IsDeployment(doc) /\ DocName(doc) = YStr(optimization[i].target))
                               => ReplicasSet(optimized_manifests.manifests[f], k, doc,
                                              PyInt(optimization[i].to))

\* C9 amended: the same, for a Deployment in a file whose name ends in
\* .yaml and whose documents the edit can visit (each empty or a mapping
\* with a mapping or no metadata, each Deployment named X with a spec
\* mapping), v being an integer or a string of digits.
C9_ReplicasAreSetInVisitableYamlFile ==
    Applied =>
        \A i \in 1..Len(optimization) :
            (/\ optimization[i].type = "reduce_replicas"
             /\ PyInt(optimization[i].to) # Err
             /\ OnlyChangeFor(i)) =>
                \A f \in YamlNames(manifests) :
                    Visitable(manifests[f], optimization[i].target) =>
                        \A k \in 1..Len(manifests[f].docs) :
                            LET doc == manifests[f].docs[k]
                            IN  (IsDeployment(doc) /\ DocName(doc) = YStr(optimization[i].target))
                                   => ReplicasSet(optimized_manifests.manifests[f], k, doc,
                                                  PyInt(optimization[i].to))

\* C9 witness: replicas 3 of a written Deployment became the integer 2 of
\* the string "2"
C9_Witness ==
    /\ Applied
    /\ optimization = <<Change("reduce_replicas", "web", YStr(<<"2">>))>>
    /\ FileNames[1] \in DOMAIN manifests
    /\ manifests[FileNames[1]] = YamlText(<<WebSimple>>, "written")
    /\ Path(optimized_manifests.manifests[FileNames[1]].docs[1],
            <<"spec", "replicas">>) = YInt(2)

\* no change is aimed at the document
Untargeted(doc) ==
    \A i \in 1..Len(optimization) : DocName(doc) # YStr(optimization[i].target)

\* an edit exists for some document of the entry
Affected(f) ==
    /\ EndsWith(f, YamlSuffix)
    /\ manifests[f].ok
    /\ \E i \in 1..Len(optimization) :
          /\ IsHandled(optimization[i])
          /\ \E k \in 1..Len(manifests[f].docs) :
                /\ IsDeployment(manifests[f].docs[k])
                /\ DocName(manifests[f].docs[k]) = YStr(optimization[i].target)

\* C10 as stated: every document no change was aimed at, also one that
\* shares a multi-document file with a modified document, keeps its input
\* text byte for byte.
C10_UntargetedDocumentsKeepTheirText ==
    Applied =>
        \A f \in DOMAIN manifests :
            \A k \in 1..Len(manifests[f].docs) :
                Untargeted(manifests[f].docs[k]) =>
                    LET out == optimized_manifests.manifests[f]
                    IN  /\ out.ok
                        /\ Len(out.docs) >= k
                        /\ out.docs[k] = manifests[f].docs[k]
                        /\ out.layout = manifests[f].layout

\* C10 amended: re-serialization is per file.  An entry no edit applies to
\* is byte-identical to its input; an entry that changed is the dump of all
\* its documents, in which every document no change was aimed at parses to
\* the same fields as before.
C10_UnaffectedFilesKeepTheirText ==
    Applied =>
        \A f \in DOMAIN manifests :
            LET out == optimized_manifests.manifests[f]
            IN  /\ ~Affected(f) => out = manifests[f]
                /\ out # manifests[f] =>
                      /\ out = dump_all(out.docs)
                      /\ Len(out.docs) = Len(manifests[f].docs)
                      /\ \A k \in 1..Len(manifests[f].docs) :
                            Untargeted(manifests[f].docs[k]) =>
                                out.docs[k] = manifests[f].docs[k]

\* C10 witness: a two-document file was dumped for an edit of its first
\* document while another file kept its text
C10_Witness ==
    /\ Applied
    /\ FileNames[1] \in DOMAIN manifests
    /\ manifests[FileNames[1]] = YamlText(<<WebTwo, ApiSmall>>, "written")
    /\ optimized_manifests.manifests[FileNames[1]].layout = "dumped"
    /\ optimized_manifests.manifests[FileNames[1]].docs[1] # WebTwo
    /\ optimized_manifests.manifests[FileNames[1]].docs[2] = ApiSmall
    /\ \E f \in YamlNames(manifests) :
          /\ f # FileNames[1]
          /\ manifests[f].ok
          /\ optimized_manifests.manifests[f] = manifests[f]

(***************************************************************************)
(* Claims about the security scan (SpecScan)                               *)
(***************************************************************************)
Reported == pc = "reported"

PodOf(doc) == Path(doc, <<"spec", "template", "spec">>)

\* the Deployment documents of the files the scan reads
ScannedDeployments ==
    UNION {{manifests[f].docs[k] : k \in {i \in 1..Len(manifests[f].docs) :
                                             IsDeployment(manifests[f].docs[i])}} :
           f \in YamlNames(manifests)}

PolicyExists ==
    \E f \in DOMAIN manifests :
        \E k \in 1..Len(manifests[f].docs) :
            Path(manifests[f].docs[k], <<"kind">>) = YStr("NetworkPolicy")

\* the Deployment names a service account other than "default"
HasOwnAccount(doc) ==
    LET account == Path(PodOf(doc), <<"serviceAccountName">>)
    IN  /\ account.t = "str"
        /\ Len(account.s) > 0
        /\ account.s # <<"d", "e", "f", "a", "u", "l", "t">>

\* C11: zero_trust_ready is true only if a NetworkPolicy document exists in
\* the set and every scanned Deployment declares a non-default service
\* account.
C11_ZeroTrustNeedsPolicyAndAccounts ==
    (Reported /\ compliance.zero_trust_ready) =>
        /\ PolicyExists
        /\ \A doc \in ScannedDeployments : HasOwnAccount(doc)

\* C12: whenever pod_security_restricted is true, pod_security_baseline is
\* true as well.
C12_RestrictedImpliesBaseline ==
    (Reported /\ compliance.pod_security_restricted) => compliance.pod_security_baseline

\* a value the code reads with .get(): absent, or a mapping
MapOrAbsent(v) == v.t \in {"absent", "map"}

\* a value the code tests for truth and then reads with .get()
MapOrFalsy(v) == v.t = "absent" \/ v.t = "map" \/ Falsy(v)

\* a value the code loops over: absent, or a list of mappings
MapsOrAbsent(v) ==
    \/ v.t = "absent"
    \/ v.t = "list" /\ \A i \in 1..Len(v.l) : v.l[i].t = "map"

ListOf(v) == IF v.t = "list" THEN v.l ELSE <<>>

\* the checks of one container raise nothing
ContainerScans(container) ==
    /\ MapOrAbsent(Path(container, <<"securityContext">>))
    /\ MapOrAbsent(Path(container, <<"securityContext", "capabilities">>))
    /\ LET caps == Path(container, <<"securityContext", "capabilities", "add">>)
       IN  caps.t = "absent" \/ Falsy(caps) \/ caps.t \in {"list", "str", "map"}
    /\ MapOrAbsent(Path(container, <<"resources">>))
    /\ LET image == Path(container, <<"image">>)
       IN  image.t = "absent" \/ Falsy(image) \/ image.t \in {"list", "str", "map"}
    /\ MapsOrAbsent(Path(container, <<"env">>))
    /\ \A j \in 1..Len(ListOf(Path(container, <<"env">>))) :
          Path(ListOf(Path(container, <<"env">>))[j], <<"name">>).t \in {"absent", "str"}

\* the checks of one Deployment raise nothing
DeploymentScans(doc) ==
    /\ MapOrAbsent(Path(doc, <<"spec">>))
    /\ MapOrAbsent(Path(doc, <<"spec", "template">>))
    /\ MapOrAbsent(PodOf(doc))
    /\ MapOrFalsy(Path(PodOf(doc), <<"securityContext">>))
    /\ MapsOrAbsent(Path(PodOf(doc), <<"containers">>))
    /\ \A c \in 1..Len(ListOf(Path(PodOf(doc), <<"containers">>))) :
          ContainerScans(ListOf(Path(PodOf(doc), <<"containers">>))[c])
    /\ MapsOrAbsent(Path(PodOf(doc), <<"volumes">>))
    /\ \A v \in 1..Len(ListOf(Path(PodOf(doc), <<"volumes">>))) :
          LET host_path == Path(ListOf(Path(PodOf(doc), <<"volumes">>))[v], <<"hostPath">>)
          IN  host_path.t = "absent" \/ Falsy(host_path)
                 \/ Path(host_path, <<"path">>).t # "absent"

\* the scan reads the whole file without an exception
FileScans(content) ==
    /\ content.ok
    /\ \A k \in 1..Len(content.docs) :
          LET doc == content.docs[k]
          IN  \/ Falsy(doc)
              \/ /\ doc.t = "map"
                 /\ MapOrAbsent(Path(doc, <<"metadata">>))
                 /\ IsDeployment(doc) => DeploymentScans(doc)

\* the environment variables the scan visits: <<file, document, container,
\* variable>> of the Deployments of the files it reads without an exception
ScannedEnv ==
    UNION {UNION {UNION {{<<f, k, c, j>> :
                            j \in 1..Len(ListOf(Path(
                                    ListOf(Path(PodOf(manifests[f].docs[k]), <<"containers">>))[c],
                                    <<"env">>)))} :
                         c \in 1..Len(ListOf(Path(PodOf(manifests[f].docs[k]),
                                                  <<"containers">>)))} :
                  k \in {i \in 1..Len(manifests[f].docs) : IsDeployment(manifests[f].docs[i])}} :
           f \in {g \in YamlNames(manifests) : FileScans(manifests[g])}}

EnvAt(v) ==
    ListOf(Path(ListOf(Path(PodOf(manifests[v[1]].docs[v[2]]), <<"containers">>))[v[3]],
                <<"env">>))[v[4]]

EnvNameAt(v) ==
    LET name == Path(EnvAt(v), <<"name">>)
    IN  IF name.t = "str" THEN name.s ELSE <<>>

\* the finding the scan records for the variable
FindingAt(v) ==
    LET doc == manifests[v[1]].docs[v[2]]
        container == ListOf(Path(PodOf(doc), <<"containers">>))[v[3]]
    IN  <<IF DocName(doc).t = "absent" THEN Unnamed ELSE DocName(doc),
          IF Path(container, <<"name">>).t = "absent" THEN Unnamed
          ELSE Path(container, <<"name">>),
          Path(EnvAt(v), <<"name">>)>>

HasLiteralValue(v) == Path(EnvAt(v), <<"value">>).t # "absent"

NamedSecret(name) ==
    Substr(name, <<"S", "E", "C", "R", "E", "T">>)
        \/ Substr(name, <<"P", "A", "S", "S", "W", "O", "R", "D">>)

\* the findings are those of the variables of the set, one each
FindingsAre(flagged) ==
    /\ Len(basic_checks.secrets_in_env) = Cardinality(flagged)
    /\ {basic_checks.secrets_in_env[i] : i \in 1..Len(basic_checks.secrets_in_env)}
          = {FindingAt(v) : v \in flagged}

AllFilesScan ==
    \A f \in YamlNames(manifests) : FileScans(manifests[f])

\* C13 as stated: a variable is recorded as a hardcoded secret if and only
\* if its name contains SECRET or PASSWORD and it carries a literal value.
C13_FlaggedIffNamedAndLiteral ==
    (pc = "checked" /\ AllFilesScan) =>
        FindingsAre({v \in ScannedEnv : NamedSecret(EnvNameAt(v)) /\ HasLiteralValue(v)})

\* C13 amended: the name is compared in upper case, so a variable is
\* recorded if and only if its name contains SECRET or PASSWORD in any
\* letter case and it has a value entry; a variable that has only
\* valueFrom, or whose name holds neither word, is never recorded.
C13_FlaggedIffNamedInAnyCaseAndLiteral ==
    (pc = "checked" /\ AllFilesScan) =>
        FindingsAre({v \in ScannedEnv :
                        NamedSecret(Upper(EnvNameAt(v))) /\ HasLiteralValue(v)})

\* C13 witness: of two variables named for a secret, the literal one is
\* recorded and the one that only refers to a managed secret is not
C13_Witness ==
    /\ pc = "checked"
    /\ AllFilesScan
    /\ Len(basic_checks.secrets_in_env) = 1
    /\ \E v \in ScannedEnv : NamedSecret(Upper(EnvNameAt(v))) /\ ~HasLiteralValue(v)

(***************************************************************************)
(* Claims about the artifacts of a stack (SpecSynth)                       *)
(***************************************************************************)
InCatalog == IsDone(stack) /\ component_type \in DOMAIN TELECOM_COMPONENTS

Descriptor == TELECOM_COMPONENTS[component_type]

Declares(key) == key \in DOMAIN Descriptor

\* C14: for every catalog type the artifact names are deployment.yaml and
\* service.yaml, hpa.yaml iff the descriptor is critical, pvc.yaml iff it
\* declares storage, network-attachment.yaml iff it declares an interface,
\* secret.yaml iff it needs a database or a queue; 5g_upf yields
\* deployment, service, hpa, pvc and network-attachment.
C14_ArtifactsFollowDescriptor ==
    InCatalog =>
        /\ ~stack.raised
        /\ {"deployment.yaml", "service.yaml"} \subseteq DOMAIN stack.manifests
        /\ DOMAIN stack.manifests \subseteq
              {"deployment.yaml", "service.yaml", "hpa.yaml", "pvc.yaml",
               "network-attachment.yaml", "secret.yaml"}
        /\ "hpa.yaml" \in DOMAIN stack.manifests
              <=> (Declares("critical") /\ Descriptor.critical)
        /\ "pvc.yaml" \in DOMAIN stack.manifests <=> Declares("storage")
        /\ "network-attachment.yaml" \in DOMAIN stack.manifests
              <=> (Declares("networks") /\ Len(Descriptor.networks) >= 1)
        /\ "secret.yaml" \in DOMAIN stack.manifests
              <=> \/ Declares("needs_database") /\ Descriptor.needs_database
                  \/ Declares("needs_queue") /\ Descriptor.needs_queue
        /\ component_type = "5g_upf" =>
              DOMAIN stack.manifests = {"deployment.yaml", "service.yaml", "hpa.yaml",
                                        "pvc.yaml", "network-attachment.yaml"}

\* C14 witness: the stack of a stateful, non-critical component has a claim
\* and no autoscaler
C14_Witness ==
    /\ InCatalog
    /\ component_type = "rabbitmq"
    /\ DOMAIN stack.manifests = {"deployment.yaml", "service.yaml", "pvc.yaml"}

IsSeparator(chunk) == "separator" \in DOMAIN chunk

\* the documents a multi-document text parses to: the chunks between its
\* separator lines
StreamDocuments(text) == SelectSeq(text, LAMBDA chunk : ~IsSeparator(chunk))

\* a text of documents, each two neighbours parted by one separator line
WellSeparated(text) ==
    /\ Len(text) % 2 = 1
    /\ \A k \in 1..Len(text) : IsSeparator(text[k]) <=> k % 2 = 0

HasInterfaces == InCatalog /\ Declares("networks") /\ Len(Descriptor.networks) >= 1

Attachments == StreamDocuments(stack.manifests["network-attachment.yaml"])

\* C15: for a descriptor with n >= 1 interfaces network-attachment.yaml parses
\* as a stream of exactly n NetworkAttachmentDefinition documents, one per
\* interface in the descriptor's order, with pairwise distinct subnets.
C15_OneAttachmentPerInterface ==
    HasInterfaces =>
        /\ "network-attachment.yaml" \in DOMAIN stack.manifests
        /\ WellSeparated(stack.manifests["network-attachment.yaml"])
        /\ Len(Attachments) = Len(Descriptor.networks)
        /\ \A i \in 1..Len(Attachments) :
              /\ Attachments[i].kind = "NetworkAttachmentDefinition"
              /\ Attachments[i].name = <<Descriptor.networks[i], "-network">>
        /\ \A i, j \in 1..Len(Attachments) :
              i # j => Attachments[i].subnet # Attachments[j].subnet

\* C15 witness: a stack with three interfaces
C15_Witness ==
    /\ HasInterfaces
    /\ Len(Descriptor.networks) = 3
    /\ Len(Attachments) = 3
    /\ Attachments[3].subnet = get_subnet(InterfaceIndexBase + 2)

(***************************************************************************)
(* Claims about the secret (SpecSecret)                                    *)
(***************************************************************************)
Needs(key) == key \in DOMAIN secret_call.config /\ secret_call.config[key]

NeedsSecret == IsDone(secret) /\ (Needs("needs_database") \/ Needs("needs_queue"))

\* the text between the user name and the host of a connection URL
PasswordOf(url) == SubSeq(url, 2, Len(url) - 1)

PlaceholderPassword == <<"__PLACEHOLDER_", "P", "A", "S", "S", "W", "O", "R", "D", "__">>

\* C16: for a descriptor that needs a database or a queue the secret is a
\* Secret with stringData holding database-url iff it needs a database and
\* rabbitmq-url iff it needs a queue (both for billing), and the password of
\* every URL is the placeholder __PLACEHOLDER_PASSWORD__.
C16_SecretHoldsPlaceholders ==
    NeedsSecret =>
        /\ ~secret.raised
        /\ secret.kind = "Secret"
        /\ "stringData" \in DOMAIN secret
        /\ DOMAIN secret.stringData \subseteq {"database-url", "rabbitmq-url"}
        /\ "database-url" \in DOMAIN secret.stringData <=> Needs("needs_database")
        /\ "rabbitmq-url" \in DOMAIN secret.stringData <=> Needs("needs_queue")
        /\ secret_call.config = TELECOM_COMPONENTS["billing"] =>
              DOMAIN secret.stringData = {"database-url", "rabbitmq-url"}
        /\ \A k \in DOMAIN secret.stringData :
              /\ PasswordOf(secret.stringData[k]) = PlaceholderPassword
              /\ \A i \in 1..Len(secret.stringData[k]) :
                    secret.stringData[k][i] # PasswordField

\* C16 witness: a descriptor that needs a queue and declares no database
C16_Witness ==
    /\ NeedsSecret
    /\ Needs("needs_queue")
    /\ "needs_database" \in DOMAIN secret_call.config
    /\ ~secret_call.config["needs_database"]
    /\ DOMAIN secret.stringData = {"rabbitmq-url"}

(***************************************************************************)
(* Claims about the cost report (SpecCost)                                 *)
(***************************************************************************)
CostsKnown == pc = "reported" /\ ~current_cost.raised /\ ~optimized_cost.raised

\* a number of tenths is the fraction n / d rounded to one decimal
NearestTenth(tenths, n, d) ==
    LET diff == tenths * d - 10 * n
    IN  2 * (IF diff >= 0 THEN diff ELSE 0 - diff) <= d

\* C17: the savings percentage is (current - optimized) / current * 100
\* rounded to one decimal when the current cost is positive and exactly 0
\* when the current cost is 0; the report is made without a division by zero.
C17_SavingsPercentage ==
    CostsKnown =>
        /\ report.status = "analyzed"
        /\ current_cost.cost > 0 =>
              NearestTenth(report.savings_percentage,
                           (current_cost.cost - optimized_cost.cost) * 100,
                           current_cost.cost)
        /\ current_cost.cost = 0 => report.savings_percentage = 0

\* C17 witness: a report whose percentage had to be rounded
C17_Witness ==
    /\ CostsKnown
    /\ current_cost.cost > optimized_cost.cost
    /\ optimized_cost.cost > 0
    /\ ((current_cost.cost - optimized_cost.cost) * 1000) % current_cost.cost # 0
    /\ report.savings_percentage > 0

\* C18: _apply_optimizations never modifies the caller's document map.
C18_CallerMapUntouched ==
    [][pc = "proposed" => manifests' = manifests]_vars

\* C18 witness: the returned map differs from the caller's
C18_Witness ==
    /\ pc = "applied"
    /\ optimized_manifests.manifests # manifests
    /\ optimized_manifests.caller = manifests

(***************************************************************************)
(* Claims about the quantity parsers (SpecParse)                           *)
(***************************************************************************)
ParsedBy(parser) == parsed # Pending /\ parsed.parser = parser

\* the quantity is the decimal numeral of n followed by the unit
Reads(n, unit) == quantity = YStr(NatToText(n) \o unit)

\* the parser returned the number n / d
Returned(n, d) == parsed.value # Err /\ parsed.value.n * d = n * parsed.value.d

\* C19: _parse_cpu returns N / 1000 for "<N>m" and N for the bare integer
\* "<N>".
C19_CpuInCores ==
    ParsedBy("cpu") =>
        \A n \in QuantityNumbers :
            /\ Reads(n, <<"m">>) => Returned(n, 1000)
            /\ Reads(n, <<>>) => Returned(n, 1)

\* C19 witness: 500m parsed
C19_Witness ==
    /\ ParsedBy("cpu")
    /\ Reads(500, <<"m">>)
    /\ parsed.value = Rat(1, 2)

\* C20: _parse_memory returns N for "<N>Gi", N / 1024 for "<N>Mi",
\* N / 1048576 for "<N>Ki", N * 1024 for "<N>Ti" and N for a bare number;
\* "1024Mi" parses to the value of "1Gi".
C20_MemoryInGigabytes ==
    ParsedBy("memory") =>
        /\ \A n \in QuantityNumbers :
              /\ Reads(n, <<"G", "i">>) => Returned(n, 1)
              /\ Reads(n, <<"M", "i">>) => Returned(n, 1024)
              /\ Reads(n, <<"K", "i">>) => Returned(n, 1048576)
              /\ Reads(n, <<"T", "i">>) => Returned(n * 1024, 1)
              /\ Reads(n, <<>>) => Returned(n, 1)
        /\ Reads(1024, <<"M", "i">>) =>
              parsed.value = parse_memory(YStr(<<"1", "G", "i">>))

\* C20 witness: 1024Mi parsed to one gigabyte
C20_Witness ==
    /\ ParsedBy("memory")
    /\ Reads(1024, <<"M", "i">>)
    /\ parsed.value = Rat(1, 1)

(***************************************************************************)
(* Claims about the functions called on their own (SpecUtil)               *)
(***************************************************************************)
Called(fn) == call # Pending /\ call.fn = fn /\ returned # Pending

\* the position of a grade letter, best first
GradeRank(grade) ==
    CHOOSE k \in 1..5 : <<"A", "B", "C", "D", "F">>[k] = grade[1]

\* C21: the grade is A for a score of 90 or more, B for 75..89, C for 60..74,
\* D for 40..59 and F below 40; a higher score never yields a worse grade.
C21_GradeByBands ==
    Called("get_security_grade") =>
        /\ ~returned.raised
        /\ returned.value[1] \in {"A", "B", "C", "D", "F"}
        /\ returned.value[1] = "A" <=> call.score >= 90
        /\ returned.value[1] = "B" <=> (call.score >= 75 /\ call.score <= 89)
        /\ returned.value[1] = "C" <=> (call.score >= 60 /\ call.score <= 74)
        /\ returned.value[1] = "D" <=> (call.score >= 40 /\ call.score <= 59)
        /\ returned.value[1] = "F" <=> call.score < 40
        /\ \A higher \in Scores :
              higher > call.score =>
                  GradeRank(get_security_grade(higher)) <= GradeRank(returned.value)

\* C21 witness: the highest score of band C
C21_Witness ==
    /\ Called("get_security_grade")
    /\ call.score = 74
    /\ returned.value[1] = "C"

(***************************************************************************)
(* Claims about the autoscaler and the network annotation (SpecSynth)      *)
(***************************************************************************)
IsCritical == InCatalog /\ Declares("critical") /\ Descriptor.critical

\* C22: for every critical descriptor the autoscaler document has minReplicas
\* equal to the descriptor's replica count and maxReplicas equal to 3 times
\* that count.
C22_AutoscalerBounds ==
    IsCritical =>
        /\ "hpa.yaml" \in DOMAIN stack.manifests
        /\ Len(stack.manifests["hpa.yaml"]) = 1
        /\ stack.manifests["hpa.yaml"][1].kind = "HorizontalPodAutoscaler"
        /\ stack.manifests["hpa.yaml"][1].minReplicas = Descriptor.replicas
        /\ stack.manifests["hpa.yaml"][1].maxReplicas = 3 * Descriptor.replicas

\* C22 witness: the autoscaler of the billing stack
C22_Witness ==
    /\ IsCritical
    /\ component_type = "billing"
    /\ stack.manifests["hpa.yaml"][1].minReplicas = 3
    /\ stack.manifests["hpa.yaml"][1].maxReplicas = 9

(***************************************************************************)
(* Claims about the address allocator (SpecUtil)                           *)
(***************************************************************************)
StartsWith(text, prefix) ==
    Len(text) >= Len(prefix) /\ SubSeq(text, 1, Len(prefix)) = prefix

\* C23: for the base prefix the addresses of two different indices in 0..N
\* are different strings, and every address starts with the base prefix.
C23_AddressesDistinct ==
    Called("get_ip") =>
        /\ ~returned.raised
        /\ StartsWith(returned.value, BASE_NETWORK \o <<".">>)
        /\ \A other \in 0..MaxIndex :
              other # call.index => get_ip(other) # returned.value

\* C23 witness: the address of an index past the range of a byte
C23_Witness ==
    /\ Called("get_ip")
    /\ call.index = 256
    /\ returned.value = <<"1", "0", ".", "1", "0", "0", ".", "2", "5", "6", ".", "1", "0">>

(***************************************************************************)
(* Claims about the validators (SpecUtil)                                  *)
(***************************************************************************)
IsLowerLetter(c) == \E k \in 1..26 : LowerCase[k] = c

\* a name of 1 to 253 lowercase letters, digits and hyphens that starts and
\* ends with a letter or digit
WellFormedName(name) ==
    /\ Len(name) >= 1
    /\ Len(name) <= 253
    /\ \A i \in 1..Len(name) : IsLowerLetter(name[i]) \/ IsDigit(name[i]) \/ name[i] = "-"
    /\ name[1] # "-"
    /\ name[Len(name)] # "-"

\* C24: validate_k8s_resource_name returns a well-formed name unchanged and
\* raises ValueError for every other string.
C24_OnlyWellFormedNamesPass ==
    Called("validate_k8s_resource_name") =>
        IF WellFormedName(call.name)
        THEN ~returned.raised /\ returned.value = call.name
        ELSE returned.raised

\* C25: for every secret value the sanitized string does not contain the
\* full secret: it shows at most the first 4 and the last 4 characters with
\* the middle hidden, and is the redaction placeholder for a value shorter
\* than 4 characters.
C25_SecretNeverShownWhole ==
    Called("sanitize_secret_value") =>
        /\ call.value # <<>> => ~Substr(returned.value, call.value)
        /\ Len(call.value) < 4 => returned.value = RedactedPlaceholder
        /\ Len(call.value) >= 4 =>
              /\ Len(returned.value) = 11
              /\ SubSeq(returned.value, 1, 4) = SubSeq(call.value, 1, 4)
              /\ SubSeq(returned.value, 5, 7) = <<".", ".", ".">>
              /\ SubSeq(returned.value, 8, 11)
                    = SubSeq(call.value, Len(call.value) - 3, Len(call.value))

(***************************************************************************)
(* Claims about the request edits (SpecCost)                               *)
(***************************************************************************)
IsRequestEdit(change) == change.type \in {"reduce_cpu", "reduce_memory"}

RequestKey(change) == IF change.type = "reduce_cpu" THEN "cpu" ELSE "memory"

MapOrEmpty(v) == IF v.t = "map" THEN v ELSE EmptyMap

\* the container with the resources and requests maps in place and the
\* request under key taken out
StripRequest(container, key) ==
    LET resources == MapOrEmpty(Path(container, <<"resources">>))
        requests == MapOrEmpty(Path(resources, <<"requests">>))
    IN  SetItem(container, "resources",
                SetItem(resources, "requests",
                        YMap([k \in DOMAIN requests.m \ {key} |-> requests.m[k]])))

\* the k-th document of the entry has the containers of doc, each with v
\* under requests.key and otherwise as it was
RequestsWritten(out, k, doc, key, v) ==
    /\ out.ok
    /\ Len(out.docs) >= k
    /\ Len(ContainersOf(out.docs[k])) = Len(ContainersOf(doc))
    /\ \A c \in 1..Len(ContainersOf(doc)) :
          /\ Path(ContainersOf(out.docs[k])[c], <<"resources", "requests", key>>) = v
          /\ StripRequest(ContainersOf(out.docs[k])[c], key)
                = StripRequest(ContainersOf(doc)[c], key)

\* the containers of the Deployment are mappings whose resources and
\* requests, where present, are mappings
RequestsWritable(doc) ==
    /\ Path(doc, <<"spec", "template", "spec", "containers">>).t = "list"
    /\ \A c \in 1..Len(ContainersOf(doc)) :
          /\ ContainersOf(doc)[c].t = "map"
          /\ Path(ContainersOf(doc)[c], <<"resources">>).t \in {"absent", "map"}
          /\ Path(ContainersOf(doc)[c], <<"resources">>).t = "map" =>
                Path(ContainersOf(doc)[c], <<"resources", "requests">>).t \in {"absent", "map"}

\* the edit of the requests raises nothing in the file
Editable(content, target) ==
    /\ Visitable(content, target)
    /\ \A k \in 1..Len(content.docs) :
          (IsDeployment(content.docs[k]) /\ DocName(content.docs[k]) = YStr(target))
              => RequestsWritable(content.docs[k])

\* C26 as stated: a reduce_cpu (reduce_memory) change aimed at a Deployment
\* writes the new value into requests.cpu (requests.memory) of every
\* container of that Deployment, creating the resources and requests maps
\* where a container lacks them, and changes no other container field.
C26_RequestsAreWritten ==
    Applied =>
        \A i \in 1..Len(optimization) :
            (IsRequestEdit(optimization[i]) /\ OnlyChangeFor(i)) =>
                \A f \in DOMAIN manifests :
                    \A k \in 1..Len(manifests[f].docs) :
                        LET doc == manifests[f].docs[k]
                        IN  (IsDeployment(doc) /\ DocName(doc) = YStr(optimization[i].target))
                               => RequestsWritten(optimized_manifests.manifests[f], k, doc,
                                                  RequestKey(optimization[i]),
                                                  optimization[i].to)

\* C26 amended: the same, for a Deployment in a file whose name ends in
\* .yaml and in which the edit raises nothing (each document empty or a
\* mapping with a mapping or no metadata, each Deployment of that name with
\* a list of containers that are mappings whose resources and requests,
\* where present, are mappings).
C26_RequestsAreWrittenInEditableYamlFile ==
    Applied =>
        \A i \in 1..Len(optimization) :
            (IsRequestEdit(optimization[i]) /\ OnlyChangeFor(i)) =>
                \A f \in YamlNames(manifests) :
                    Editable(manifests[f], optimization[i].target) =>
                        \A k \in 1..Len(manifests[f].docs) :
                            LET doc == manifests[f].docs[k]
                            IN  (IsDeployment(doc) /\ DocName(doc) = YStr(optimization[i].target))
                                   => RequestsWritten(optimized_manifests.manifests[f], k, doc,
                                                      RequestKey(optimization[i]),
                                                      optimization[i].to)

\* C26 witness: a container without resources got the cpu request, and the
\* one beside it kept its memory request
C26_Witness ==
    /\ Applied
    /\ optimization = <<Change("reduce_cpu", "web", YStr(Cpu250m))>>
    /\ FileNames[1] \in DOMAIN manifests
    /\ manifests[FileNames[1]] = YamlText(<<WebCpuOnly>>, "written")
    /\ ContainersOf(optimized_manifests.manifests[FileNames[1]].docs[1])
          = <<Container("app", YMap([cpu |-> YStr(Cpu250m)])),
              Container("sidecar", YMap([cpu |-> YStr(Cpu250m)]))>>

(***************************************************************************)
(* Claims about the network annotation (SpecSynth)                         *)
(***************************************************************************)
StackDeployment == stack.manifests["deployment.yaml"][1]

\* the address part of "a.b.c.d/24"
AddressOf(text) == Split(text, "/")[1]

\* a /24 holds the addresses that share its first three octets
InSubnet24(ip, subnet_text) ==
    RSplitHead(ip, ".") = RSplitHead(AddressOf(subnet_text), ".")

IsInterfaceVariable(v) == v.name[Len(v.name)] = "_IP"

\* C27: for a descriptor with n interfaces the Deployment's annotation lists
\* exactly one attachment per interface; the attachment of ordinal k is named
\* <interface>-network, the name of the k-th NetworkAttachmentDefinition, and
\* its single IP is the allocator address of index 100+k, inside the subnet
\* of that definition; a descriptor without interfaces gets no annotation and
\* no per-interface environment variable.
C27_AnnotationMatchesAttachments ==
    (InCatalog /\ ~stack.raised) =>
        /\ HasInterfaces =>
              /\ Len(StackDeployment.attachments) = Len(Descriptor.networks)
              /\ Len(Attachments) = Len(Descriptor.networks)
              /\ \A k \in 1..Len(Descriptor.networks) :
                    /\ StackDeployment.attachments[k].name
                          = <<Descriptor.networks[k], "-network">>
                    /\ StackDeployment.attachments[k].name = Attachments[k].name
                    /\ StackDeployment.attachments[k].interface = Descriptor.networks[k]
                    /\ StackDeployment.attachments[k].ips
                          = <<get_ip(InterfaceIndexBase + (k - 1)) \o NETWORK_CIDR>>
                    /\ InSubnet24(AddressOf(StackDeployment.attachments[k].ips[1]),
                                  Attachments[k].subnet)
                    /\ StackDeployment.env[k].value
                          = AddressOf(StackDeployment.attachments[k].ips[1])
        /\ ~HasInterfaces =>
              /\ StackDeployment.attachments = <<>>
              /\ \A i \in 1..Len(StackDeployment.env) : ~IsInterfaceVariable(StackDeployment.env[i])

\* C27 witness: the 5g_upf stack, whose third attachment holds 10.100.102.10
C27_Witness ==
    /\ HasInterfaces
    /\ ~stack.raised
    /\ Len(StackDeployment.attachments) = 3
    /\ StackDeployment.attachments[3].name = <<"n6", "-network">>
    /\ StackDeployment.attachments[3].ips
          = << <<"1", "0", ".", "1", "0", "0", ".", "1", "0", "2", ".", "1", "0",
                 "/", "2", "4">> >>
    /\ Attachments[3].subnet
          = <<"1", "0", ".", "1", "0", "0", ".", "1", "0", "2", ".", "0", "/", "2", "4">>

\* a stack without interfaces was generated: billing, whose env block holds
\* no <NET>_IP variable
C27_WitnessNoInterfaces ==
    /\ InCatalog
    /\ ~stack.raised
    /\ component_type = "billing"
    /\ StackDeployment.attachments = <<>>
    /\ Len(StackDeployment.env) = 5

(***************************************************************************)
(* Claims about failing edits (SpecCost)                                   *)
(***************************************************************************)
\* applying the change to the file raises inside the try block: the text
\* does not load, or the pass over one of its documents raises
Raises(content, change) ==
    LET docs == safe_load_all(content)
    IN  \/ docs = Err
        \/ \E k \in 1..Len(docs.l) : ApplyToDoc(docs.l[k], change).raised

\* the map after the first i changes if every (change, file) pair that
\* raises is a step that does nothing and every other pair is applied
RECURSIVE AfterSkippingFailures(_)
AfterSkippingFailures(i) ==
    IF i = 0 THEN manifests
    ELSE [f \in DOMAIN manifests |->
             IF ~EndsWith(f, YamlSuffix) \/ Raises(AfterSkippingFailures(i - 1)[f], optimization[i])
             THEN AfterSkippingFailures(i - 1)[f]
             ELSE ApplyToFile(AfterSkippingFailures(i - 1)[f], optimization[i])]

\* C28: a change whose application to a file raises leaves the text of that
\* file as it was before the change, propagates no exception and does not
\* keep the remaining files and the remaining changes from being processed:
\* the returned map is the one obtained by skipping exactly the failing
\* (change, file) pairs, and a file whose every pair fails keeps its input
\* text.
C28_FailingChangeIsSkipped ==
    Applied =>
        /\ ~optimized_manifests.raised
        /\ optimized_manifests.manifests = AfterSkippingFailures(Len(optimization))
        /\ \A f \in YamlNames(manifests) :
              (\A i \in 1..Len(optimization) : Raises(manifests[f], optimization[i]))
                 => optimized_manifests.manifests[f] = manifests[f]

\* C28 witness: reduce_cpu for api raises in the first file at the list
\* document after the Deployment web, the file keeps its text, the second
\* file's api is edited by the same change, and the next change in the
\* list sets its replicas
C28_Witness ==
    /\ Applied
    /\ optimization = <<Change("reduce_cpu", "api", YStr(Cpu250m)),
                        Change("reduce_replicas", "api", YStr(<<"1">>))>>
    /\ DOMAIN manifests = {FileNames[1], FileNames[2], FileNames[3]}
    /\ manifests[FileNames[1]] = YamlText(<<WebSimple, ListDoc>>, "written")
    /\ manifests[FileNames[3]] = YamlText(<<ApiSmall>>, "written")
    /\ Raises(manifests[FileNames[1]], optimization[1])
    /\ optimized_manifests.manifests[FileNames[1]] = manifests[FileNames[1]]
    /\ optimized_manifests.manifests[FileNames[3]].layout = "dumped"
    /\ Path(optimized_manifests.manifests[FileNames[3]].docs[1],
            <<"spec", "template", "spec", "containers">>).l[1]
          = Container("app", Requests(YStr(Cpu250m), YStr(Mem100Mi)))
    /\ Path(optimized_manifests.manifests[FileNames[3]].docs[1],
            <<"spec", "replicas">>) = YInt(1)

\* a change that raised after an earlier document of the file was edited in
\* memory: reduce_cpu for web on the file holding web and a list document
C28_WitnessPartlyEdited ==
    /\ Applied
    /\ optimization = <<Change("reduce_cpu", "web", YStr(Cpu250m))>>
    /\ FileNames[1] \in DOMAIN manifests
    /\ manifests[FileNames[1]] = YamlText(<<WebSimple, ListDoc>>, "written")
    /\ ApplyToDoc(WebSimple, optimization[1]).modified
    /\ optimized_manifests.manifests[FileNames[1]] = manifests[FileNames[1]]

\* a non-integer replica count and a Deployment without spec: both raise and
\* the file keeps its text
C28_WitnessNamedFailures ==
    /\ Applied
    /\ optimization = <<Change("reduce_replicas", "web", YStr(<<"5", "0", "%">>)),
                        Change("reduce_cpu", "web", YStr(Cpu250m))>>
    /\ FileNames[1] \in DOMAIN manifests
    /\ manifests[FileNames[1]] = YamlText(<<DeploymentNoSpec("web")>>, "written")
    /\ Raises(manifests[FileNames[1]], optimization[1])
    /\ Raises(manifests[FileNames[1]], optimization[2])
    /\ optimized_manifests.manifests[FileNames[1]] = manifests[FileNames[1]]

(***************************************************************************)
(* Claims about the cost of failing files and of defaults (SpecCost)       *)
(***************************************************************************)
Without(m, name) == [f \in DOMAIN m \ {name} |-> m[f]]

Partly(content, amount) == [content |-> content, amount |-> amount]

\* files whose costing raises partway, each with the roubles added before
\* the exception:
\*  - the second container's cpu request is the number 1, not a string: the
\*    first container, (1 x 1500 + 2 x 600) x 2, is kept;
\*  - the first container's memory request does not parse: its cpu,
\*    0.2 x 1500, was added already and the second container is not reached;
\*  - the second document is a list: the first document, 8100, is kept and
\*    the Deployment after the list is not reached;
\*  - the second Deployment has the text "3" for replicas: the first
\*    Deployment, 8100, is kept.
PartlyCostedFiles ==
    {Partly(YamlText(<<WebIntCpu>>, "written"), 5400),
     Partly(YamlText(<<ApiJunkMemory>>, "written"), 300),
     Partly(YamlText(<<WebSimple, ListDoc>>, "written"), 8100),
     Partly(YamlText(<<WebSimple, ListDoc, WebSimple>>, "written"), 8100),
     Partly(YamlText(<<WebSimple, WebTextReplicas, WebSimple>>, "dumped"), 8100)}

\* C29: a file whose costing raises partway is skipped from the point of the
\* failure only: what was added for its earlier containers and documents
\* stays in the total, the rest of the file adds nothing, and the other
\* files are costed as without it.
C29_FailingFileCountsUpToFailure ==
    Costed =>
        /\ ~current_cost.raised
        /\ \A p \in PartlyCostedFiles :
              /\ \A f \in YamlNames(manifests) :
                    manifests[f] = p.content =>
                        current_cost.cost
                           = calculate_current_cost(Without(manifests, f)).cost
                             + p.amount * 100
              /\ LET r == calculate_current_cost(With(manifests, FreshName, p.content))
                 IN  ~r.raised /\ r.cost = current_cost.cost + p.amount * 100

\* C29 witness: the set of a file that fails at its second container and a
\* file costed after it
C29_Witness ==
    /\ Costed
    /\ DOMAIN manifests = {FileNames[1], FileNames[2], FileNames[3]}
    /\ manifests[FileNames[1]] = YamlText(<<WebIntCpu>>, "written")
    /\ manifests[FileNames[3]] = YamlText(<<ApiSmall>>, "written")
    /\ FileCost(manifests[FileNames[1]], Rat(0, 1)).raised
    /\ current_cost.cost > 5400 * 100

\* the container states neither a cpu nor a memory request
Undeclared(container) ==
    /\ Path(container, <<"resources", "requests", "cpu">>) = Absent
    /\ Path(container, <<"resources", "requests", "memory">>) = Absent

\* the same, with resources and requests each a mapping where present
PlainlyUndeclared(container) ==
    /\ Undeclared(container)
    /\ container.t = "map"
    /\ Path(container, <<"resources">>).t \in {"absent", "map"}
    /\ Path(container, <<"resources", "requests">>).t \in {"absent", "map"}

\* roubles per replica for a container charged 100m and 128Mi:
\* 0.1 x cpu_price + 0.125 x memory_price
DefaultCharge == (CpuCorePrice \div 10) + (MemoryGbPrice \div 8)

EmptyResources(name) == YMap([name |-> YStr(name), resources |-> EmptyMap])

EmptyRequests(name) ==
    YMap([name |-> YStr(name), resources |-> YMap([requests |-> EmptyMap])])

\* Deployments of one to three containers without requests
UndeclaredDeployments ==
    {Deployment("web", YInt(1), <<BareContainer("app")>>),
     Deployment("web", YInt(2), <<BareContainer("app"), EmptyResources("sidecar")>>),
     Deployment("web", YInt(3),
                <<EmptyRequests("app"), BareContainer("sidecar"), EmptyResources("proxy")>>),
     DeploymentNoReplicas("web", <<EmptyRequests("app"), EmptyRequests("sidecar")>>)}

\* a file name of the other usual suffix
FreshYmlName == <<"n", "e", "w", ".", "y", "m", "l">>

\* a file of one Deployment without requests, added under the name, adds
\* k x 225 x replicas roubles
ChargesAdded(name) ==
    \A doc \in UndeclaredDeployments :
        calculate_current_cost(With(manifests, name, YamlText(<<doc>>, "written"))).cost
        = current_cost.cost
          + Len(ContainersOf(doc)) * DefaultCharge * ReplicasOf(doc) * 100

\* each file among names that holds one Deployment, each of whose k
\* containers is as NoRequests says, adds k x 225 x replicas roubles to the
\* cost of the other files
ChargesDefaults(names, NoRequests(_)) ==
    \A f \in names :
        LET content == manifests[f]
        IN  (/\ content.ok
             /\ Len(content.docs) = 1
             /\ IsDeployment(content.docs[1])
             /\ Path(content.docs[1], <<"spec", "replicas">>).t \in {"absent", "int"}
             /\ Len(ContainersOf(content.docs[1])) >= 1
             /\ \A k \in 1..Len(ContainersOf(content.docs[1])) :
                   NoRequests(ContainersOf(content.docs[1])[k]))
            => current_cost.cost
                  = calculate_current_cost(Without(manifests, f)).cost
                    + Len(ContainersOf(content.docs[1])) * DefaultCharge
                      * ReplicasOf(content.docs[1]) * 100

====
